---- MODULE Spec2Model ----
(***************************************************************************)
(* A model of the go-pipeline execution engine (pkg/pipeline): the Scope   *)
(* value and its copy/merge operations, the step-executor registry, the    *)
(* sequential Pipeline.Execute loop, the control-flow steps and the        *)
(* fan-out worker pool (feeder, workers, orchestrator, channels).          *)
(*                                                                         *)
(* Conventions.  An error is the sequence of the tokens of its text, the   *)
(* nil error is the empty sequence.  A template expression is modelled by  *)
(* what rendering it against a scope yields.  Every executor is a pure     *)
(* operator from (scope, step) to a result record                          *)
(*   [scope, err, panic, ran, wrote]                                       *)
(* where ran lists the steps dispatched below it, in order, and wrote the  *)
(* variables written below it.                                             *)
(***************************************************************************)
EXTENDS Integers, Sequences, FiniteSets, TLC

VARIABLES
    pipe,       \* the pipeline being executed by Pipeline.Execute
    pc,         \* position of Pipeline.Execute: "loop", "fanout", "done"
    idx,        \* 1-based index of the next step of the for loop
    scope,      \* the loop's scope variable
    err,        \* the error Pipeline.Execute returns
    events,     \* history: dispatches and returns of the pipeline's steps
    crashed,    \* an unrecovered panic ended the process
    fo,         \* the running fanout call: its locals and channels
    feeder,     \* the feeder goroutine: next item to send
    workers,    \* the worker goroutines: position, scope, pending result
    units,      \* history: per work unit, what its execution saw and did
    mem,        \* the Scope values and map instances of a program that uses
                \* the Scope operations directly
    un,         \* the running UntilExecutor call: its locals, and history
    cat,        \* the running Pipelines.Execute call of the embedding program
    calls,      \* the Pipeline.Execute calls in progress through Uses, innermost
                \* last, and the steps they have executed
    itc,        \* the installed interceptors, the goroutines that execute
                \* pipelines under them, and the history of both
    ev          \* an expression a program evaluates, and the result of Eval

vars ==
    <<pipe, pc, idx, scope, err, events, crashed, fo, feeder, workers, units,
      mem, un, cat, calls, itc, ev>>

(***************************************************************************)
(* Bounds of the model.                                                    *)
(***************************************************************************)
MaxSteps == 3
MaxItems == 3
MaxConc == 2
MaxPipes == 2

MaxOps == 3

MaxCount == 3

MaxIds == 3

MaxDepth == 4

MaxSets == 2

MaxGo == 2

(***************************************************************************)
(* Errors.                                                                 *)
(***************************************************************************)
NilErr == <<>>

Errorf(tokens) == tokens

ErrVariableNotFound == <<"variable not found">>

ErrTemplate == <<"template: execution failed">>

Range(s) == {s[i] : i \in DOMAIN s}

(***************************************************************************)
(* Scope.                                                                  *)
(***************************************************************************)
EmptyVariables == [p \in {} |-> 0]

NewScope == [Finished |-> FALSE, variables |-> EmptyVariables]

\* mutant: the empty path is written like any other
WithVariableAnyPath(c, path, item) ==
    [c EXCEPT !.variables =
        [k \in (DOMAIN c.variables) \cup {path} |->
            IF k = path THEN item ELSE c.variables[k]]]

WithVariable(c, path, item) ==
    IF path = ""
    THEN c
    ELSE [c EXCEPT !.variables =
             [k \in (DOMAIN c.variables) \cup {path} |->
                 IF k = path THEN item ELSE c.variables[k]]]

RECURSIVE WithVariablesOver(_, _, _)
WithVariablesOver(c, items, paths) ==
    IF paths = {}
    THEN c
    ELSE LET path == CHOOSE p \in paths : TRUE
         IN  WithVariablesOver(WithVariable(c, path, items[path]), items,
                               paths \ {path})

WithVariables(c, items) == WithVariablesOver(c, items, DOMAIN items)

Clone(c) ==
    [Finished |-> c.Finished,
     variables |-> [k \in DOMAIN c.variables |-> c.variables[k]]]

Merge(c, ctx) == WithVariables(c, ctx.variables)

\* mutant: an absent path reads as the zero value, without error
VariableOrZero(c, path) ==
    IF path \in DOMAIN c.variables
    THEN [item |-> c.variables[path], err |-> NilErr]
    ELSE [item |-> 0, err |-> NilErr]

Variable(c, path) ==
    IF path \in DOMAIN c.variables
    THEN [item |-> c.variables[path], err |-> NilErr]
    ELSE [item |-> 0, err |-> ErrVariableNotFound]

(***************************************************************************)
(* Expressions (pkg/expression).  An expression is a template; the model   *)
(* keeps what rendering it against a scope yields:                         *)
(*   [kind |-> "text", text |-> t]       a template without actions        *)
(*   [kind |-> "fail"]                   a template whose execution fails  *)
(*   [kind |-> "eq", path, value]        {{ eq (variable . path) value }}  *)
(*   [kind |-> "ne", path, value]        {{ ne (variable . path) value }}  *)
(*   [kind |-> "lt", path, value]        {{ lt (variable . path) value }}  *)
(*   [kind |-> "blank"]                  actions that render no text       *)
(* and for structured values (YAML / JSON typed expressions):              *)
(*   [kind |-> "lit", value |-> v]       a literal document                *)
(*   [kind |-> "copy", path]             {{ variable . path }}             *)
(*   [kind |-> "append", acc, item]      acc's list with item appended     *)
(*   [kind |-> "inc", path]              {{ add (variable . path) 1 }}     *)
(***************************************************************************)
BoolText(b) == IF b THEN "true" ELSE "false"

\* the template functions of template.go over a looked-up variable v
RenderCompare(e, v) ==
    IF v.err # NilErr
    THEN [value |-> "", err |-> v.err]
    ELSE [value |-> BoolText((v.item = e.value) <=> (e.kind = "eq")),
          err |-> NilErr]

\* {{ lt (variable . path) value }} over a looked-up variable v
RenderLess(e, v) ==
    IF v.err # NilErr
    THEN [value |-> "", err |-> v.err]
    ELSE [value |-> BoolText(v.item < e.value), err |-> NilErr]

StringEval(e, c) ==
    CASE e.kind = "text" -> [value |-> e.text, err |-> NilErr]
      [] e.kind = "fail" -> [value |-> "", err |-> ErrTemplate]
      [] e.kind \in {"eq", "ne"} -> RenderCompare(e, Variable(c, e.path))
      [] e.kind = "lt" -> RenderLess(e, Variable(c, e.path))
      [] e.kind = "blank" -> [value |-> "", err |-> NilErr]

ParseBool(text) ==
    CASE text \in {"1", "t", "T", "TRUE", "true", "True"} ->
            [value |-> TRUE, err |-> NilErr]
      [] text \in {"0", "f", "F", "FALSE", "false", "False"} ->
            [value |-> FALSE, err |-> NilErr]
      [] OTHER ->
            [value |-> FALSE, err |-> <<"strconv.ParseBool: invalid syntax">>]

\* Bool.Eval once the template is rendered to s
BoolOf(s) ==
    IF s.err # NilErr THEN [value |-> FALSE, err |-> s.err]
    ELSE IF s.value = "" THEN [value |-> FALSE, err |-> NilErr]
    ELSE ParseBool(s.value)

BoolEval(e, c) == BoolOf(StringEval(e, c))

Atoi(text) ==
    IF \E n \in -9..9 : ToString(n) = text
    THEN [value |-> CHOOSE n \in -9..9 : ToString(n) = text, err |-> NilErr]
    ELSE [value |-> 0, err |-> <<"strconv.Atoi: invalid syntax">>]

\* Int.Eval once the template is rendered to s
IntOf(s) ==
    IF s.err # NilErr THEN [value |-> 0, err |-> s.err]
    ELSE IF s.value = "" THEN [value |-> 0, err |-> NilErr]
    ELSE Atoi(s.value)

IntEval(e, c) == IntOf(StringEval(e, c))

\* time.ParseDuration, in nanoseconds
ParseDuration(text) ==
    CASE text = "0" -> [value |-> 0, err |-> NilErr]
      [] text = "1us" -> [value |-> 1000, err |-> NilErr]
      [] text = "2ms" -> [value |-> 2000000, err |-> NilErr]
      [] text = "1s" -> [value |-> 1000000000, err |-> NilErr]
      [] OTHER -> [value |-> 0, err |-> <<"time: invalid duration">>]

\* Duration.Eval once the template is rendered to s
DurationOf(s) ==
    IF s.err # NilErr THEN [value |-> 0, err |-> s.err]
    ELSE IF s.value = "" THEN [value |-> 0, err |-> NilErr]
    ELSE ParseDuration(s.value)

DurationEval(e, c) == DurationOf(StringEval(e, c))

\* json.Unmarshal into a []any, whose zero value is the nil slice
JSONUnmarshal(text) ==
    CASE text = "" -> [value |-> <<>>, err |-> <<"unexpected end of JSON input">>]
      [] text = "null" -> [value |-> <<>>, err |-> NilErr]
      [] text = "[]" -> [value |-> <<>>, err |-> NilErr]
      [] text = "[1]" -> [value |-> <<1>>, err |-> NilErr]
      [] text = "[1,2]" -> [value |-> <<1, 2>>, err |-> NilErr]
      [] OTHER -> [value |-> <<>>, err |-> <<"json: invalid document">>]

\* JSON.Eval once the template is rendered to s
JSONOf(s) ==
    IF s.err # NilErr THEN [value |-> <<>>, err |-> s.err]
    ELSE JSONUnmarshal(s.value)

\* yaml.Unmarshal into an any, whose zero value is nil (0 here)
YAMLUnmarshal(text) ==
    CASE text = "" -> [value |-> 0, err |-> NilErr]
      [] text = "~" -> [value |-> 0, err |-> NilErr]
      [] text = "7" -> [value |-> 7, err |-> NilErr]
      [] OTHER -> [value |-> 0, err |-> <<"yaml: invalid document">>]

\* YAML.Eval once the template is rendered to s
YAMLOf(s) ==
    IF s.err # NilErr THEN [value |-> 0, err |-> s.err]
    ELSE YAMLUnmarshal(s.value)

RenderAppend(a, i) ==
    IF a.err # NilErr THEN [value |-> 0, err |-> a.err]
    ELSE IF i.err # NilErr THEN [value |-> 0, err |-> i.err]
    ELSE [value |-> Append(a.item, i.item), err |-> NilErr]

RenderCopy(v) == [value |-> v.item, err |-> v.err]

RenderInc(v) ==
    IF v.err # NilErr THEN [value |-> 0, err |-> v.err]
    ELSE [value |-> v.item + 1, err |-> NilErr]

YAMLEval(e, c) ==
    CASE e.kind = "lit" -> [value |-> e.value, err |-> NilErr]
      [] e.kind = "fail" -> [value |-> 0, err |-> ErrTemplate]
      [] e.kind = "copy" -> RenderCopy(Variable(c, e.path))
      [] e.kind = "append" ->
            RenderAppend(Variable(c, e.acc), Variable(c, e.item))
      [] e.kind = "inc" -> RenderInc(Variable(c, e.path))
      [] e.kind \in {"text", "blank"} -> YAMLOf(StringEval(e, c))

(***************************************************************************)
(* Steps and the registry.                                                 *)
(***************************************************************************)
Step(type, id, decodable, params) ==
    [type |-> type, id |-> id, decodable |-> decodable, params |-> params]

Pipeline(uses, id, steps) == [Uses |-> uses, ID |-> id, Steps |-> steps]

StepString(s) ==
    <<"step-", s.type>> \o (IF s.id # "" THEN <<"-", s.id>> ELSE <<>>)

PathNodeIndex == "$index"

JoinNodes(allNodes) ==
    CASE Len(allNodes) = 0 -> ""
      [] Len(allNodes) = 1 -> allNodes[1]
      [] Len(allNodes) = 2 -> allNodes[1] \o "." \o allNodes[2]

VariablePath(s, pathNodes) ==
    JoinNodes((IF s.id # "" THEN <<s.id>> ELSE <<>>) \o pathNodes)

NoPanic == ""

Result(c, e) ==
    [scope |-> c, err |-> e, panic |-> NoPanic, ran |-> <<>>,
     wrote |-> EmptyVariables]

Panic(c, value) ==
    [scope |-> c, err |-> NilErr, panic |-> value, ran |-> <<>>,
     wrote |-> EmptyVariables]

Failed(r) == r.panic # NoPanic \/ r.err # NilErr

\* a step's write of item at path: the scope it returns, and the write
Written(c, path, item) ==
    [scope |-> WithVariable(c, path, item), err |-> NilErr,
     panic |-> NoPanic, ran |-> <<>>,
     wrote |-> IF path = "" THEN EmptyVariables ELSE path :> item]

ErrDecode == <<"yaml: unmarshal errors">>

\* SetExecutor once its parameter is evaluated to value
SetValue(c, step, value) ==
    IF value.err # NilErr
    THEN Result(c, value.err)
    ELSE Written(c, VariablePath(step, <<>>), value.value)

SetExecutor(c, step) == SetValue(c, step, YAMLEval(step.params.value, c))

\* mutant: the message is left out of the error
StopErrorNoMessage(isError, msg) ==
    IF isError.value THEN Errorf(<<"stop error">>) ELSE NilErr

StopError(isError, msg) ==
    IF isError.value THEN Errorf(<<"stop error: ", msg.value>>) ELSE NilErr

\* mutant: the stop does not set Finished
StopDecideNoFinish(c, stop, msg, isError) ==
    IF stop.err # NilErr THEN Result(c, stop.err)
    ELSE IF msg.err # NilErr THEN Result(c, msg.err)
    ELSE IF isError.err # NilErr THEN Result(c, isError.err)
    ELSE IF stop.value
         THEN Result(c, StopError(isError, msg))
         ELSE Result(c, NilErr)

\* mutant: is_error yields the error whether or not the condition is true
StopDecideErrorAnyway(c, stop, msg, isError) ==
    IF stop.err # NilErr THEN Result(c, stop.err)
    ELSE IF msg.err # NilErr THEN Result(c, msg.err)
    ELSE IF isError.err # NilErr THEN Result(c, isError.err)
    ELSE IF stop.value
         THEN Result([c EXCEPT !.Finished = TRUE], StopError(isError, msg))
         ELSE Result(c, StopError(isError, msg))

\* StopExecutor once its three parameters are evaluated
StopDecide(c, stop, msg, isError) ==
    IF stop.err # NilErr THEN Result(c, stop.err)
    ELSE IF msg.err # NilErr THEN Result(c, msg.err)
    ELSE IF isError.err # NilErr THEN Result(c, isError.err)
    ELSE IF stop.value
         THEN Result([c EXCEPT !.Finished = TRUE], StopError(isError, msg))
         ELSE Result(c, NilErr)

StopExecutor(c, step) ==
    StopDecide(c, BoolEval(step.params.condition, c),
               StringEval(step.params.message, c),
               BoolEval(step.params.is_error, c))

LogMessage(c, message) ==
    IF message.err # NilErr THEN Result(c, message.err) ELSE Result(c, NilErr)

LogExecutor(c, step) == LogMessage(c, StringEval(step.params.message, c))

\* An executor registered by the embedding program (README, Customize):
\* it writes at the step's path, fails, or panics.
CustomExecutor(c, step) ==
    CASE step.params.does = "write" ->
            Written(c, VariablePath(step, <<>>), step.params.value)
      [] step.params.does = "error" -> Result(c, <<"custom failure">>)
      [] step.params.does = "panic" -> Panic(c, step.params.value)

RegisteredTypes ==
    {"pipeline", "set", "range", "wait", "stop", "until", "log", "fanout",
     "custom"}

(***************************************************************************)
(* The catalog of named pipelines every Scope refers to (Scope.Pipelines). *)
(***************************************************************************)
Lit(v) == [kind |-> "lit", value |-> v]

Text(t) == [kind |-> "text", text |-> t]

Fail == [kind |-> "fail"]

SetStep(id, value) == Step("set", id, TRUE, [value |-> value])

StopStep(condition, message, isError) ==
    Step("stop", "", TRUE,
         [condition |-> condition, message |-> message, is_error |-> isError])

LogStep(message) == Step("log", "", TRUE, [message |-> message])

CustomStep(id, does, value) ==
    Step("custom", id, TRUE, [does |-> does, value |-> value])

Catalog ==
    [id \in {"base", "broken", "copy", "chain", "finish",
             "ping", "pong", "self", "lead"} |->
        CASE id = "base" -> Pipeline("", "base", <<SetStep("u", Lit(7))>>)
          [] id = "broken" ->
                Pipeline("", "broken", <<SetStep("u", Fail), SetStep("u", Lit(8))>>)
          [] id = "copy" ->
                Pipeline("", "copy",
                         <<SetStep("v", [kind |-> "copy", path |-> "u"])>>)
          [] id = "chain" -> Pipeline("base", "chain", <<SetStep("w", Lit(6))>>)
          [] id = "finish" ->
                Pipeline("", "finish",
                         <<StopStep(Text("true"), Text("enough"), Text("false"))>>)
          [] id = "ping" -> Pipeline("pong", "ping", <<SetStep("x", Lit(1))>>)
          [] id = "pong" -> Pipeline("ping", "pong", <<SetStep("y", Lit(2))>>)
          [] id = "self" -> Pipeline("self", "self", <<SetStep("z", Lit(3))>>)
          [] id = "lead" -> Pipeline("ping", "lead", <<SetStep("l", Lit(4))>>)]

(***************************************************************************)
(* Sequential execution as pure operators: StepExecutors.Execute, the      *)
(* typed adapter, the executors that run an embedded pipeline, and         *)
(* Pipeline.Execute / Pipelines.Execute.  They are used for every pipeline *)
(* that runs inside one step (pipeline steps, Uses, a worker's work unit); *)
(* the steps of the top-level pipeline are dispatched by actions below.    *)
(* range and fanout steps occur only in the top-level pipeline, where the  *)
(* concurrent engine is modelled by actions.                               *)
(***************************************************************************)
RECURSIVE PipelineExecute(_, _)
RECURSIVE PipelinesExecuteFrom(_, _, _)
RECURSIVE ForSteps(_, _, _)
RECURSIVE StepExecutorsExecute(_, _)

\* r's outcome, reached after everything acc did
After(acc, r) ==
    [scope |-> r.scope, err |-> r.err, panic |-> r.panic,
     ran |-> acc.ran \o r.ran, wrote |-> r.wrote @@ acc.wrote]

PipelineExecutor(c, step) == PipelineExecute(step.params, c)

Executor(c, step) ==
    CASE step.type = "pipeline" -> PipelineExecutor(c, step)
      [] step.type = "set" -> SetExecutor(c, step)
      [] step.type = "stop" -> StopExecutor(c, step)
      [] step.type = "log" -> LogExecutor(c, step)

TypedStepExecutorExecute(c, step) ==
    IF ~step.decodable THEN Result(c, ErrDecode) ELSE Executor(c, step)

Registered(c, step) ==
    IF step.type = "custom"
    THEN CustomExecutor(c, step)
    ELSE TypedStepExecutorExecute(c, step)

defaultStepInterceptor(c, step) == Registered(c, step)

\* mutant: a step of unknown type is skipped
UnknownStepTypeSkipped(c, step) == Result(c, NilErr)

UnknownStepType(c, step) ==
    Result(c, Errorf(<<"unknown step type: ", step.type>>))

\* mutant: the interceptor's error is returned as it is
WrapStepErrorPlain(step, e) == e

WrapStepError(step, e) ==
    IF e # NilErr
    THEN Errorf(<<"error executing step ">> \o StepString(step) \o <<": ">> \o e)
    ELSE e

\* lines 478-483: the interceptor's result x, its error wrapped
Wrapped(step, x) ==
    IF x.panic # NoPanic THEN x
    ELSE [x EXCEPT !.err = WrapStepError(step, x.err)]

\* history: step was dispatched, then r happened
Dispatched(step, r) == [r EXCEPT !.ran = <<step>> \o r.ran]

StepExecutorsExecute(c, step) ==
    Dispatched(step,
               IF step.type \notin RegisteredTypes
               THEN UnknownStepType(c, step)
               ELSE Wrapped(step, defaultStepInterceptor(c, step)))

\* lines 104-109: the loop after step i returned r
ForStepsNext(steps, i, r) ==
    IF Failed(r) THEN r ELSE ForSteps(steps, i + 1, r)

\* mutant: the loop does not look at Finished
ForStepsAll(steps, i, acc) ==
    IF i > Len(steps) THEN acc
    ELSE ForStepsNext(steps, i,
                      After(acc, StepExecutorsExecute(acc.scope, steps[i])))

ForSteps(steps, i, acc) ==
    IF i > Len(steps) THEN acc
    ELSE IF acc.scope.Finished THEN acc
    ELSE ForStepsNext(steps, i,
                      After(acc, StepExecutorsExecute(acc.scope, steps[i])))

ErrPipelineNotFound(id) ==
    Errorf(<<"Pipeline ", id, " not found: available ">>)

PipelinesExecuteNext(ids, i, r) ==
    IF Failed(r) THEN r ELSE PipelinesExecuteFrom(r, ids, i + 1)

PipelinesExecuteFrom(acc, ids, i) ==
    IF i > Len(ids) THEN acc
    ELSE IF ids[i] \notin DOMAIN Catalog
    THEN [acc EXCEPT !.err = ErrPipelineNotFound(ids[i])]
    ELSE PipelinesExecuteNext(ids, i,
             After(acc, PipelineExecute(Catalog[ids[i]], acc.scope)))

PipelinesExecute(c, ids) == PipelinesExecuteFrom(Result(c, NilErr), ids, 1)

\* lines 90-95
UsesExecute(c, p) ==
    IF p.Uses # "" THEN PipelinesExecute(c, <<p.Uses>>) ELSE Result(c, NilErr)

\* lines 97-113, after the Uses prologue returned used
UsesThen(p, used) ==
    IF Failed(used) THEN used ELSE ForSteps(p.Steps, 1, used)

PipelineBody(c, p) == UsesThen(p, UsesExecute(c, p))

defaultInterceptor(c, p) == PipelineBody(c, p)

PipelineExecute(p, c) == defaultInterceptor(c, p)

(***************************************************************************)
(* The top-level Pipeline.Execute as a state machine: one action for the   *)
(* Uses prologue, one per iteration of the step loop, one per return.      *)
(***************************************************************************)
Event(kind, i, c, e) == [kind |-> kind, i |-> i, scope |-> c, err |-> e]

NoFanout ==
    [active |-> FALSE, cap |-> 0, in |-> <<>>, out |-> <<>>,
     inClosed |-> FALSE, ctxDone |-> FALSE, scope |-> NewScope,
     items |-> <<>>, k |-> 0, base |-> NewScope, started |-> <<>>,
     merged |-> <<>>, failed |-> 0, returned |-> FALSE, err |-> NilErr,
     cancelled |-> FALSE]

NoFeeder == [pc |-> "idle", i |-> 1]

\* no program uses the Scope operations directly
NoMem == [heap |-> <<>>]

\* no until step is running
NoUntil ==
    [active |-> FALSE, scope |-> NewScope, proceed |-> FALSE, evals |-> <<>>,
     iterations |-> 0, late |-> 0, cancelled |-> FALSE]

\* the embedding program has not called Pipelines.Execute
NoCatalogCall == [ids |-> <<>>, i |-> 1]

\* no Pipeline.Execute call is modelled frame by frame
NoCalls == [frames |-> <<>>, ran |-> <<>>]

\* no program evaluates an expression on its own
NoEval == [kind |-> "", done |-> TRUE]

\* init.go 41-42: the default interceptors are installed, and no goroutine
\* is modelled call by call
NoItc ==
    [pipeline |-> "default", step |-> "default", gs |-> <<>>,
     sets |-> [pipeline |-> <<>>, step |-> <<>>]]

Concurrent(step) == step.type \in {"range", "fanout"}

Until(step) == step.type = "until"

HasNext == idx <= Len(pipe.Steps)

\* mutant: the loop keeps its own scope instead of the one the step returned
LoopAfterStaleScope(before, r) ==
    IF r.panic # NoPanic
    THEN /\ crashed' = TRUE
         /\ pc' = "panicked"
         /\ events' = before
         /\ UNCHANGED <<idx, scope, err>>
    ELSE /\ scope' = scope
         /\ events' = Append(before, Event("return", idx, r.scope, r.err))
         /\ crashed' = crashed
         /\ err' = r.err
         /\ pc' = IF r.err # NilErr THEN "done" ELSE "loop"
         /\ idx' = IF r.err # NilErr THEN idx ELSE idx + 1

\* mutant: the loop goes on to the next step after a step failed
LoopAfterIgnoreError(before, r) ==
    IF r.panic # NoPanic
    THEN /\ crashed' = TRUE
         /\ pc' = "panicked"
         /\ events' = before
         /\ UNCHANGED <<idx, scope, err>>
    ELSE /\ scope' = r.scope
         /\ events' = Append(before, Event("return", idx, r.scope, r.err))
         /\ crashed' = crashed
         /\ err' = r.err
         /\ pc' = "loop"
         /\ idx' = idx + 1

\* the rest of an iteration of the step loop, once executors.Execute has
\* returned r for step idx; before is the history up to its dispatch
LoopAfter(before, r) ==
    IF r.panic # NoPanic
    THEN /\ crashed' = TRUE
         /\ pc' = "panicked"
         /\ events' = before
         /\ UNCHANGED <<idx, scope, err>>
    ELSE /\ scope' = r.scope
         /\ events' = Append(before, Event("return", idx, r.scope, r.err))
         /\ crashed' = crashed
         /\ err' = r.err
         /\ pc' = IF r.err # NilErr THEN "done" ELSE "loop"
         /\ idx' = IF r.err # NilErr THEN idx ELSE idx + 1

\* mutant: the pipeline's own steps run after the referenced pipeline failed
UsesAfterIgnoreError(r) ==
    IF r.panic # NoPanic
    THEN /\ crashed' = TRUE
         /\ pc' = "panicked"
         /\ UNCHANGED <<scope, err>>
    ELSE /\ scope' = r.scope
         /\ crashed' = crashed
         /\ err' = r.err
         /\ pc' = "loop"

UsesAfter(r) ==
    IF r.panic # NoPanic
    THEN /\ crashed' = TRUE
         /\ pc' = "panicked"
         /\ UNCHANGED <<scope, err>>
    ELSE /\ scope' = r.scope
         /\ crashed' = crashed
         /\ err' = r.err
         /\ pc' = IF r.err # NilErr THEN "done" ELSE "loop"

\* Pipeline.Execute, lines 90-95: the Uses prologue
ExecuteUses ==
    /\ pc = "start" /\ ~crashed
    /\ UsesAfter(UsesExecute(scope, pipe))
    /\ UNCHANGED <<pipe, idx, events, fo, feeder, workers, units>>
    /\ UNCHANGED <<mem, un, cat, calls, itc, ev>>

\* one iteration of the loop over a step that runs in the caller's goroutine
ExecuteStep ==
    /\ pc = "loop" /\ ~crashed
    /\ HasNext /\ ~scope.Finished
    /\ ~Concurrent(pipe.Steps[idx]) /\ ~Until(pipe.Steps[idx])
    /\ LoopAfter(Append(events, Event("dispatch", idx, scope, NilErr)),
                 StepExecutorsExecute(scope, pipe.Steps[idx]))
    /\ UNCHANGED <<pipe, fo, feeder, workers, units>>
    /\ UNCHANGED <<mem, un, cat, calls, itc, ev>>

\* lines 98-100: the scope is finished, the remaining steps are skipped
ReturnFinished ==
    /\ pc = "loop" /\ ~crashed
    /\ HasNext /\ scope.Finished
    /\ pc' = "done"
    /\ err' = NilErr
    /\ UNCHANGED <<pipe, idx, scope, events, crashed, fo, feeder, workers, units>>
    /\ UNCHANGED <<mem, un, cat, calls, itc, ev>>

\* line 113: every step has run
ReturnCompleted ==
    /\ pc = "loop" /\ ~crashed
    /\ ~HasNext
    /\ pc' = "done"
    /\ err' = NilErr
    /\ UNCHANGED <<pipe, idx, scope, events, crashed, fo, feeder, workers, units>>
    /\ UNCHANGED <<mem, un, cat, calls, itc, ev>>

(***************************************************************************)
(* range and fanout: RangeExecutor and FanoutExecutor evaluate their       *)
(* parameters and call fanout, which is modelled by actions: the           *)
(* orchestrator (the caller's goroutine), the feeder goroutine and the     *)
(* worker goroutines, over the buffered channels in and out.  A work unit  *)
(* and a result carry the position of their item (unit), as history.       *)
(***************************************************************************)
workerParams(p, variables, unit) ==
    [Pipeline |-> p, Variables |-> variables, unit |-> unit]

workerResult(c, e, unit) == [Scope |-> c, error |-> e, unit |-> unit]

NoInput == workerParams(Pipeline("", "", <<>>), EmptyVariables, 0)

NoResult == workerResult(NewScope, NilErr, 0)

Absent == [kind |-> "absent"]

\* the paths that hold a []any in the pipelines of this model: a set step
\* stores the map[string]any of its document, which is not one
SlicePaths == {"list"}

JSONEval(e, c) ==
    CASE e.kind = "lit" -> [value |-> e.value, err |-> NilErr]
      [] e.kind = "fail" -> [value |-> <<>>, err |-> ErrTemplate]
      [] e.kind \in {"text", "blank", "eq", "ne"} -> JSONOf(StringEval(e, c))

Prepared(e, concurrency, work) ==
    [err |-> e, concurrency |-> concurrency, units |-> work]

\* lines 619-631: the items after the variable source
RangeVariable(params, items, variable) ==
    IF params.variable = "" THEN [items |-> items, err |-> NilErr]
    ELSE IF variable.err # NilErr THEN [items |-> items, err |-> variable.err]
    ELSE IF params.variable \notin SlicePaths
    THEN [items |-> items,
          err |-> Errorf(<<"variable ", params.variable, " is not a slice">>)]
    ELSE [items |-> Append(items, variable.item), err |-> NilErr]

\* lines 633-640: the items after the JSON source
RangeJSON(params, sofar, json) ==
    IF sofar.err # NilErr THEN sofar
    ELSE IF params.json = Absent THEN sofar
    ELSE IF json.err # NilErr THEN [items |-> sofar.items, err |-> json.err]
    ELSE [items |-> sofar.items \o json.value, err |-> NilErr]

RangeItems(c, params) ==
    RangeJSON(params,
              RangeVariable(params, params.items, Variable(c, params.variable)),
              IF params.json = Absent
              THEN [value |-> <<>>, err |-> NilErr]
              ELSE JSONEval(params.json, c))

\* lines 651-659: the mapper of RangeExecutor
RangeUnit(step, item, i) ==
    workerParams(Pipeline(step.params.Uses, step.params.ID, step.params.Steps),
                 (VariablePath(step, <<>>) :> item)
                     @@ (VariablePath(step, <<PathNodeIndex>>) :> i),
                 i + 1)

\* lines 642-659, once the items and the concurrency are evaluated
RangeFanout(step, items, concurrency) ==
    IF items.err # NilErr THEN Prepared(items.err, 0, <<>>)
    ELSE IF concurrency.err # NilErr THEN Prepared(concurrency.err, 0, <<>>)
    ELSE Prepared(NilErr,
                  IF concurrency.value = 0 THEN 1 ELSE concurrency.value,
                  [i \in 1..Len(items.items) |->
                      RangeUnit(step, items.items[i], i - 1)])

RangeExecutor(c, step) ==
    RangeFanout(step, RangeItems(c, step.params),
                IntEval(step.params.concurrency, c))

\* lines 773-786, once the concurrency is evaluated
FanoutFanout(step, concurrency) ==
    IF concurrency.err # NilErr THEN Prepared(concurrency.err, 0, <<>>)
    ELSE Prepared(NilErr,
                  IF concurrency.value = 0
                  THEN Len(step.params.pipelines)
                  ELSE concurrency.value,
                  [i \in 1..Len(step.params.pipelines) |->
                      workerParams(step.params.pipelines[i], EmptyVariables, i)])

FanoutExecutor(c, step) ==
    FanoutFanout(step, IntEval(step.params.concurrency, c))

\* the typed adapter in front of RangeExecutor and FanoutExecutor
ConcurrentExecutor(c, step) ==
    IF ~step.decodable THEN Prepared(ErrDecode, 0, <<>>)
    ELSE IF step.type = "range" THEN RangeExecutor(c, step)
    ELSE FanoutExecutor(c, step)

NoUnit ==
    [invoked |-> 0, worker |-> 0, start |-> NewScope, ran |-> <<>>,
     wrote |-> EmptyVariables, panicked |-> FALSE, finished |-> FALSE,
     done |-> FALSE, panic |-> NoPanic, scope |-> NewScope, err |-> NilErr,
     late |-> FALSE]

\* mutant: the loop that starts the workers runs once too often
FanoutBeginOneMore(before, c, concurrency, work) ==
    IF concurrency < 0
    THEN /\ crashed' = TRUE
         /\ pc' = "panicked"
         /\ events' = before
         /\ UNCHANGED <<idx, scope, err, fo, feeder, workers, units>>
    ELSE /\ fo' = [active |-> TRUE, cap |-> concurrency, in |-> <<>>,
                   out |-> <<>>, inClosed |-> FALSE, ctxDone |-> FALSE,
                   scope |-> c, items |-> work, k |-> 0, base |-> c,
                   started |-> <<>>, merged |-> <<>>, failed |-> 0,
                   returned |-> FALSE, err |-> NilErr, cancelled |-> FALSE]
         /\ workers' = [w \in 1..(concurrency + 1) |->
                           [pc |-> "select", scope |-> c, input |-> NoInput,
                            result |-> NoResult]]
         /\ feeder' = [pc |-> IF Len(work) = 0 THEN "done" ELSE "send", i |-> 1]
         /\ units' = [i \in 1..Len(work) |-> NoUnit]
         /\ pc' = "fanout"
         /\ events' = before
         /\ UNCHANGED <<idx, scope, err, crashed>>

\* lines 790-809: the channels, the derived context, the workers, the feeder
FanoutBegin(before, c, concurrency, work) ==
    IF concurrency < 0
    THEN /\ crashed' = TRUE
         /\ pc' = "panicked"
         /\ events' = before
         /\ UNCHANGED <<idx, scope, err, fo, feeder, workers, units>>
    ELSE /\ fo' = [active |-> TRUE, cap |-> concurrency, in |-> <<>>,
                   out |-> <<>>, inClosed |-> FALSE, ctxDone |-> FALSE,
                   scope |-> c, items |-> work, k |-> 0, base |-> c,
                   started |-> <<>>, merged |-> <<>>, failed |-> 0,
                   returned |-> FALSE, err |-> NilErr, cancelled |-> FALSE]
         /\ workers' = [w \in 1..concurrency |->
                           [pc |-> "select", scope |-> c, input |-> NoInput,
                            result |-> NoResult]]
         /\ feeder' = [pc |-> IF Len(work) = 0 THEN "done" ELSE "send", i |-> 1]
         /\ units' = [i \in 1..Len(work) |-> NoUnit]
         /\ pc' = "fanout"
         /\ events' = before
         /\ UNCHANGED <<idx, scope, err, crashed>>

\* the step's executor returned before calling fanout, or fanout begins
ConcurrentStart(before, step, prep) ==
    IF prep.err # NilErr
    THEN /\ LoopAfter(before, Dispatched(step, Wrapped(step, Result(scope, prep.err))))
         /\ UNCHANGED <<fo, feeder, workers, units>>
    ELSE FanoutBegin(before, scope, prep.concurrency, prep.units)

\* one iteration of the step loop over a range or fanout step, up to the
\* start of the goroutines of fanout
DispatchConcurrent ==
    /\ pc = "loop" /\ ~crashed
    /\ HasNext /\ ~scope.Finished
    /\ Concurrent(pipe.Steps[idx])
    /\ ConcurrentStart(Append(events, Event("dispatch", idx, scope, NilErr)),
                       pipe.Steps[idx],
                       ConcurrentExecutor(scope, pipe.Steps[idx]))
    /\ pipe' = pipe
    /\ UNCHANGED <<mem, un, cat, calls, itc, ev>>

\* fanout returns (c, e): the deferred cancel() and close(in) run, then
\* StepExecutors.Execute wraps the error and the step loop goes on
FanoutReturn(out, c, e, unit) ==
    /\ fo' = [fo EXCEPT !.active = FALSE, !.ctxDone = TRUE, !.inClosed = TRUE,
                        !.out = out, !.scope = c, !.returned = TRUE, !.err = e,
                        !.failed = unit]
    /\ LoopAfter(events, Dispatched(pipe.Steps[idx],
                                    Wrapped(pipe.Steps[idx], Result(c, e))))
    /\ UNCHANGED <<pipe, feeder, workers, units>>

\* lines 811-814 and 824: the loop over len(items) ends, or finds the scope
\* finished
OrchestratorReturn ==
    /\ pc = "fanout" /\ ~crashed
    /\ IF fo.k < Len(fo.items) THEN fo.scope.Finished ELSE TRUE
    /\ FanoutReturn(fo.out, fo.scope, NilErr, 0)
    /\ UNCHANGED <<mem, un, cat, calls, itc, ev>>

\* lines 816-821: a result without error is merged
OrchestratorMerge ==
    /\ pc = "fanout" /\ ~crashed
    /\ fo.k < Len(fo.items) /\ ~fo.scope.Finished
    /\ fo.out # <<>>
    /\ Head(fo.out).error = NilErr
    /\ fo' = [fo EXCEPT !.out = Tail(fo.out),
                        !.scope = Merge(fo.scope, Head(fo.out).Scope),
                        !.k = fo.k + 1,
                        !.merged = Append(fo.merged, Head(fo.out).unit)]
    /\ UNCHANGED <<pipe, pc, idx, scope, err, events, crashed, feeder, workers,
                   units>>
    /\ UNCHANGED <<mem, un, cat, calls, itc, ev>>

\* mutant: the failing result's scope is merged before fanout returns
OrchestratorErrorMerging ==
    /\ pc = "fanout" /\ ~crashed
    /\ fo.k < Len(fo.items) /\ ~fo.scope.Finished
    /\ fo.out # <<>>
    /\ Head(fo.out).error # NilErr
    /\ FanoutReturn(Tail(fo.out), Merge(fo.scope, Head(fo.out).Scope),
                    Head(fo.out).error, Head(fo.out).unit)
    /\ UNCHANGED <<mem, un, cat, calls, itc, ev>>

\* lines 816-819: a result with an error ends fanout
OrchestratorError ==
    /\ pc = "fanout" /\ ~crashed
    /\ fo.k < Len(fo.items) /\ ~fo.scope.Finished
    /\ fo.out # <<>>
    /\ Head(fo.out).error # NilErr
    /\ FanoutReturn(Tail(fo.out), fo.scope, Head(fo.out).error, Head(fo.out).unit)
    /\ UNCHANGED <<mem, un, cat, calls, itc, ev>>

\* lines 805-809: the feeder sends the next unit on in
FeederSend ==
    /\ ~crashed
    /\ feeder.pc = "send"
    /\ ~fo.inClosed
    /\ Len(fo.in) < fo.cap
    /\ fo' = [fo EXCEPT !.in = Append(fo.in, fo.items[feeder.i])]
    /\ feeder' = [pc |-> IF feeder.i = Len(fo.items) THEN "done" ELSE "send",
                  i |-> feeder.i + 1]
    /\ UNCHANGED <<pipe, pc, idx, scope, err, events, crashed, workers, units>>
    /\ UNCHANGED <<mem, un, cat, calls, itc, ev>>

\* line 807 after line 794: a send on the closed channel panics, and nothing
\* recovers a panic of the feeder goroutine
FeederPanic ==
    /\ ~crashed
    /\ feeder.pc = "send"
    /\ fo.inClosed
    /\ feeder' = [feeder EXCEPT !.pc = "panicked"]
    /\ crashed' = TRUE
    /\ UNCHANGED <<pipe, pc, idx, scope, err, events, fo, workers, units>>
    /\ UNCHANGED <<mem, un, cat, calls, itc, ev>>

\* lines 846-847
WorkerCtxDone(w) ==
    /\ ~crashed
    /\ workers[w].pc = "select"
    /\ fo.ctxDone
    /\ workers' = [workers EXCEPT ![w].pc = "exit"]
    /\ UNCHANGED <<pipe, pc, idx, scope, err, events, crashed, fo, feeder, units>>
    /\ UNCHANGED <<mem, un, cat, calls, itc, ev>>

\* lines 848-851: the receive from the closed and drained channel
WorkerClosed(w) ==
    /\ ~crashed
    /\ workers[w].pc = "select"
    /\ fo.in = <<>> /\ fo.inClosed
    /\ workers' = [workers EXCEPT ![w].pc = "exit"]
    /\ UNCHANGED <<pipe, pc, idx, scope, err, events, crashed, fo, feeder, units>>
    /\ UNCHANGED <<mem, un, cat, calls, itc, ev>>

\* mutant: every unit starts from a clone of the scope fanout was called with
UnitScopeFromBase(c, input) == WithVariables(Clone(fo.base), input.Variables)

\* mutant: a unit starts from a clone of the orchestrator's running scope
UnitScopeShared(c, input) == WithVariables(Clone(fo.scope), input.Variables)

\* line 853
UnitScope(c, input) == WithVariables(Clone(c), input.Variables)

\* mutant: the unit is read without being taken off the channel
WorkerPullAsPeek(w, input, c) ==
    /\ fo' = [fo EXCEPT !.started = Append(fo.started, input.unit)]
    /\ workers' = [workers EXCEPT ![w].pc = "execute", ![w].input = input,
                                  ![w].scope = c]
    /\ units' = [units EXCEPT ![input.unit].invoked = @ + 1,
                              ![input.unit].worker = w,
                              ![input.unit].start = c,
                              ![input.unit].late = fo.ctxDone]

\* lines 848 and 853: a unit is received and the worker's scope is replaced
\* by its clone with the unit's variables
WorkerPullAs(w, input, c) ==
    /\ fo' = [fo EXCEPT !.in = Tail(fo.in),
                        !.started = Append(fo.started, input.unit)]
    /\ workers' = [workers EXCEPT ![w].pc = "execute", ![w].input = input,
                                  ![w].scope = c]
    /\ units' = [units EXCEPT ![input.unit].invoked = @ + 1,
                              ![input.unit].worker = w,
                              ![input.unit].start = c,
                              ![input.unit].late = fo.ctxDone]

WorkerPull(w) ==
    /\ ~crashed
    /\ workers[w].pc = "select"
    /\ fo.in # <<>>
    /\ WorkerPullAs(w, Head(fo.in), UnitScope(workers[w].scope, Head(fo.in)))
    /\ UNCHANGED <<pipe, pc, idx, scope, err, events, crashed, feeder>>
    /\ UNCHANGED <<mem, un, cat, calls, itc, ev>>

\* mutant: the recovered value is left out of the error
ErrPanicNoValue(value) == Errorf(<<"panic: ">>)

ErrPanic(value) == Errorf(<<"panic: ", value>>)

\* lines 856-857 and 838-842: the unit's pipeline returned r, or panicked
WorkerExecuted(w, r) ==
    /\ workers' =
          IF r.panic # NoPanic
          THEN [workers EXCEPT
                   ![w].pc = "recover",
                   ![w].result = workerResult(workers[w].scope, ErrPanic(r.panic),
                                              workers[w].input.unit)]
          ELSE [workers EXCEPT
                   ![w].pc = "send",
                   ![w].scope = r.scope,
                   ![w].result = workerResult(r.scope, r.err,
                                              workers[w].input.unit)]
    /\ units' = [units EXCEPT ![workers[w].input.unit].ran = r.ran,
                              ![workers[w].input.unit].wrote = r.wrote,
                              ![workers[w].input.unit].panicked = r.panic # NoPanic,
                              ![workers[w].input.unit].finished =
                                  r.panic = NoPanic /\ r.scope.Finished,
                              ![workers[w].input.unit].done = TRUE,
                              ![workers[w].input.unit].panic = r.panic,
                              ![workers[w].input.unit].scope =
                                  IF r.panic # NoPanic THEN workers[w].scope
                                  ELSE r.scope,
                              ![workers[w].input.unit].err =
                                  IF r.panic # NoPanic THEN ErrPanic(r.panic)
                                  ELSE r.err]

WorkerExecute(w) ==
    /\ ~crashed
    /\ workers[w].pc = "execute"
    /\ WorkerExecuted(w, PipelineExecute(workers[w].input.Pipeline,
                                         workers[w].scope))
    /\ UNCHANGED <<pipe, pc, idx, scope, err, events, crashed, fo, feeder>>
    /\ UNCHANGED <<mem, un, cat, calls, itc, ev>>

\* line 857: the send of the result
WorkerSend(w) ==
    /\ ~crashed
    /\ workers[w].pc = "send"
    /\ Len(fo.out) < fo.cap
    /\ fo' = [fo EXCEPT !.out = Append(fo.out, workers[w].result)]
    /\ workers' = [workers EXCEPT ![w].pc = "select"]
    /\ UNCHANGED <<pipe, pc, idx, scope, err, events, crashed, feeder, units>>
    /\ UNCHANGED <<mem, un, cat, calls, itc, ev>>

\* mutant: the worker ends after a panic without sending a result
WorkerRecoverExit(w) ==
    /\ ~crashed
    /\ workers[w].pc = "recover"
    /\ workers' = [workers EXCEPT ![w].pc = "exit"]
    /\ UNCHANGED <<pipe, pc, idx, scope, err, events, crashed, feeder, units>>
    /\ UNCHANGED <<fo, mem, un, cat, calls, itc, ev>>

\* line 840: the send of the recovered panic, after which the worker ends
WorkerRecoverSend(w) ==
    /\ ~crashed
    /\ workers[w].pc = "recover"
    /\ Len(fo.out) < fo.cap
    /\ fo' = [fo EXCEPT !.out = Append(fo.out, workers[w].result)]
    /\ workers' = [workers EXCEPT ![w].pc = "exit"]
    /\ UNCHANGED <<pipe, pc, idx, scope, err, events, crashed, feeder, units>>
    /\ UNCHANGED <<mem, un, cat, calls, itc, ev>>

(***************************************************************************)
(* The pipelines the sequential specification runs.                        *)
(***************************************************************************)
Boom == "boom"

SeqMenu ==
    { SetStep("a", Lit(1)),
      SetStep("", Lit(2)),
      SetStep("a", Fail),
      StopStep(Text("true"), Text(Boom), Text("false")),
      StopStep(Text("true"), Text(Boom), Text("true")),
      StopStep(Text("false"), Text(Boom), Text("true")),
      StopStep(Text("false"), Text(Boom), Text("false")),
      StopStep(Text("false"), Fail, Text("true")),
      StopStep(Text("true"), Fail, Text("false")),
      LogStep(Text("hello")),
      Step("bogus", "x", TRUE, [value |-> Lit(1)]),
      Step("set", "a", FALSE, [value |-> Lit(1)]),
      CustomStep("b", "error", 3),
      Step("pipeline", "", TRUE,
           Pipeline("", "inner",
                    <<SetStep("b", Lit(2)),
                      StopStep(Text("true"), Text(Boom), Text("false")),
                      SetStep("b", Lit(3))>>)) }

SeqOver(S, n) == UNION {[1..m -> S] : m \in 0..n}

UsesMenu == {"", "base", "broken", "missing"}

SeqPipelines ==
    {Pipeline(u, "main", steps) : u \in UsesMenu, steps \in SeqOver(SeqMenu, MaxSteps)}

Init ==
    /\ pipe \in SeqPipelines
    /\ pc = "start"
    /\ idx = 1
    /\ scope = NewScope
    /\ err = NilErr
    /\ events = <<>>
    /\ crashed = FALSE
    /\ fo = NoFanout
    /\ feeder = NoFeeder
    /\ workers = <<>>
    /\ units = <<>>
    /\ mem = NoMem
    /\ un = NoUntil
    /\ cat = NoCatalogCall
    /\ calls = NoCalls
    /\ itc = NoItc
    /\ ev = NoEval

Next ==
    \/ ExecuteUses
    \/ ExecuteStep
    \/ ReturnFinished
    \/ ReturnCompleted

Spec == Init /\ [][Next]_vars

(***************************************************************************)
(* The pipelines the concurrent specification runs: a step that prepares   *)
(* the scope, one range or fanout step, and a step after it.               *)
(***************************************************************************)
RangeStep(id, items, variable, json, concurrency, steps) ==
    Step("range", id, TRUE,
         [items |-> items, variable |-> variable, json |-> json,
          concurrency |-> concurrency, Uses |-> "", ID |-> "", Steps |-> steps])

FanoutStep(concurrency, pipelines) ==
    Step("fanout", "", TRUE,
         [concurrency |-> concurrency, pipelines |-> pipelines])

Copy(path) == [kind |-> "copy", path |-> path]

Eq(path, value) == [kind |-> "eq", path |-> path, value |-> value]

Ne(path, value) == [kind |-> "ne", path |-> path, value |-> value]

AppendTo(acc, item) == [kind |-> "append", acc |-> acc, item |-> item]

ConcMenu == {Text("")} \cup {Text(ToString(n)) : n \in 1..MaxConc}

RangeSubMenu ==
    { <<SetStep("acc", AppendTo("acc", "r"))>>,
      <<SetStep("a", Copy("r"))>>,
      <<StopStep(Eq("r", 2), Text(Boom), Text("false")), SetStep("b", Copy("r"))>>,
      <<StopStep(Eq("r", 1), Text(Boom), Text("true")), SetStep("b", Copy("r"))>>,
      <<StopStep(Ne("r", 2), Text(Boom), Text("false")),
        CustomStep("p", "panic", "oops")>> }

FanSubMenu ==
    { Pipeline("", "p1", <<SetStep("a", Lit(1))>>),
      Pipeline("", "p2", <<SetStep("b", Lit(2))>>),
      Pipeline("", "p3", <<StopStep(Text("true"), Text(Boom), Text("false")),
                           SetStep("c", Lit(3))>>),
      Pipeline("", "p4", <<StopStep(Text("true"), Text(Boom), Text("true"))>>),
      Pipeline("", "p5", <<CustomStep("p", "panic", "oops")>>) }

ItemLists == {[i \in 1..n |-> i] : n \in 0..MaxItems}

RangeMenu ==
    {RangeStep("r", items, "", Absent, conc, steps) :
        items \in ItemLists, conc \in ConcMenu, steps \in RangeSubMenu}

FanoutMenu ==
    {FanoutStep(conc, pipelines) :
        conc \in ConcMenu, pipelines \in SeqOver(FanSubMenu, MaxPipes)}

Before1 == SetStep("acc", Lit(<<>>))

Before2 == SetStep("a", Lit(0))

\* the YAML null
Null == "null"

Before3 == SetStep("n", Lit(Null))

\* range steps that take their items from a variable: one that was never
\* written, and one that holds a null
VariableRangeMenu ==
    {RangeStep("r", <<>>, variable, Absent, Text(""), <<SetStep("b", Copy("r"))>>) :
        variable \in {"missing", "n"}}

After1 == SetStep("z", Lit(9))

\* a range and a fanout step whose concurrency evaluates to a negative number
NegativeMenu ==
    { RangeStep("r", <<1>>, "", Absent, Text("-1"), <<SetStep("b", Copy("r"))>>),
      FanoutStep(Text("-1"), <<Pipeline("", "p1", <<SetStep("a", Lit(1))>>)>>) }

\* a step registered by the embedding program that stores a []any
ListStep == CustomStep("list", "write", <<5, 6>>)

\* range steps that take their items from the three sources
ListRangeMenu ==
    {RangeStep("r", items, "list", json, Text(""), <<SetStep("b", Copy("r"))>>) :
        items \in {<<>>, <<1>>}, json \in {Absent, Lit(<<8>>), Fail}}

\* a range or a fanout over a scope that holds an empty accumulator and an
\* older value of a, a range over a variable, and a pipeline that stops
\* before its concurrent step
FanPipelines ==
    {Pipeline("", "main", <<Before1, Before2, fan, After1>>) :
        fan \in RangeMenu \cup FanoutMenu \cup NegativeMenu}
    \cup {Pipeline("", "main", <<Before1, Before2, Before3, fan, After1>>) :
            fan \in VariableRangeMenu}
    \cup {Pipeline("", "main",
                   <<Before1, Before2, Before3, ListStep, fan, After1>>) :
            fan \in ListRangeMenu}
    \cup {Pipeline("", "main",
                   <<StopStep(Text("true"), Text(Boom), Text("false")), fan>>) :
            fan \in {RangeStep("r", <<1>>, "", Absent, Text(""), <<After1>>)}}

FanInit ==
    /\ pipe \in FanPipelines
    /\ pc = "start"
    /\ idx = 1
    /\ scope = NewScope
    /\ err = NilErr
    /\ events = <<>>
    /\ crashed = FALSE
    /\ fo = NoFanout
    /\ feeder = NoFeeder
    /\ workers = <<>>
    /\ units = <<>>
    /\ mem = NoMem
    /\ un = NoUntil
    /\ cat = NoCatalogCall
    /\ calls = NoCalls
    /\ itc = NoItc
    /\ ev = NoEval

FanNext ==
    \/ ExecuteUses
    \/ ExecuteStep
    \/ ReturnFinished
    \/ ReturnCompleted
    \/ DispatchConcurrent
    \/ OrchestratorReturn
    \/ OrchestratorMerge
    \/ OrchestratorError
    \/ FeederSend
    \/ FeederPanic
    \/ \E w \in DOMAIN workers :
          \/ WorkerCtxDone(w)
          \/ WorkerClosed(w)
          \/ WorkerPull(w)
          \/ WorkerExecute(w)
          \/ WorkerSend(w)
          \/ WorkerRecoverSend(w)

FanSpec == FanInit /\ [][FanNext]_vars

(***************************************************************************)
(* The same pipelines under a caller that may cancel the context it passed *)
(* to Pipeline.Execute while fanout runs.  The context fanout derives with *)
(* context.WithCancel is done as soon as its parent is.                    *)
(***************************************************************************)
AmbientCancel ==
    /\ pc = "fanout" /\ ~crashed
    /\ ~fo.cancelled
    /\ fo' = [fo EXCEPT !.cancelled = TRUE, !.ctxDone = TRUE]
    /\ UNCHANGED <<pipe, pc, idx, scope, err, events, crashed, feeder, workers,
                   units>>
    /\ UNCHANGED <<mem, un, cat, calls, itc, ev>>

CancelNext == FanNext \/ AmbientCancel

CancelSpec == FanInit /\ [][CancelNext]_vars

(***************************************************************************)
(* until: UntilExecutor, for an until step of the top-level pipeline, as   *)
(* actions: the first evaluation of the condition, one action per          *)
(* iteration of its loop (the sub-pipeline, then the condition again), and *)
(* its return.  The caller may cancel the context it passed to             *)
(* Pipeline.Execute while the loop runs.  un.evals, un.iterations and      *)
(* un.late are history: the outcomes of the evaluations of the condition,  *)
(* the number of executions of the sub-pipeline, and the number of those   *)
(* begun after the context was cancelled; they stop counting at their      *)
(* bounds.                                                                 *)
(***************************************************************************)
UntilStep(condition, steps) ==
    Step("until", "", TRUE,
         [condition |-> condition, Uses |-> "", ID |-> "", Steps |-> steps])

UntilPipeline(step) ==
    Pipeline(step.params.Uses, step.params.ID, step.params.Steps)

\* history: the outcome of one evaluation of the condition
Outcome(proceed) ==
    IF proceed.err # NilErr THEN "error" ELSE BoolText(proceed.value)

Recorded(evals, proceed) ==
    IF Len(evals) > MaxCount + 1 THEN evals
    ELSE Append(evals, Outcome(proceed))

Counted(n) == IF n > MaxCount THEN n ELSE n + 1

\* UntilExecutor returns (c, e): StepExecutors.Execute wraps the error and
\* the step loop goes on
UntilReturns(before, step, c, e) ==
    LoopAfter(before, Dispatched(step, Wrapped(step, Result(c, e))))

\* lines 705-710: the first evaluation of the condition
UntilStart(before, step, proceed) ==
    IF ~step.decodable
    THEN /\ UntilReturns(before, step, scope, ErrDecode)
         /\ un' = NoUntil
    ELSE IF proceed.err # NilErr
    THEN /\ UntilReturns(before, step, scope, proceed.err)
         /\ un' = [NoUntil EXCEPT !.evals = Recorded(<<>>, proceed)]
    ELSE /\ un' = [NoUntil EXCEPT !.active = TRUE, !.scope = scope,
                                  !.proceed = proceed.value,
                                  !.evals = Recorded(<<>>, proceed)]
         /\ pc' = "until"
         /\ events' = before
         /\ UNCHANGED <<idx, scope, err, crashed>>

DispatchUntil ==
    /\ pc = "loop" /\ ~crashed
    /\ HasNext /\ ~scope.Finished
    /\ Until(pipe.Steps[idx])
    /\ UntilStart(Append(events, Event("dispatch", idx, scope, NilErr)),
                  pipe.Steps[idx],
                  BoolEval(pipe.Steps[idx].params.condition, scope))
    /\ UNCHANGED <<pipe, fo, feeder, workers, units, mem, cat, calls, itc, ev>>

\* history: one more execution of the sub-pipeline
Iterated(u) ==
    [u EXCEPT !.iterations = Counted(u.iterations),
              !.late = IF u.cancelled /\ u.late < 2 THEN u.late + 1 ELSE u.late]

\* mutant: the condition is not evaluated again after an iteration
UntilAfterKeepProceed(step, r, proceed) ==
    IF r.panic # NoPanic
    THEN /\ crashed' = TRUE
         /\ pc' = "panicked"
         /\ un' = Iterated(un)
         /\ UNCHANGED <<idx, scope, err, events>>
    ELSE IF r.err # NilErr
    THEN /\ UntilReturns(events, step, r.scope, r.err)
         /\ un' = [Iterated(un) EXCEPT !.active = FALSE, !.scope = r.scope]
    ELSE /\ un' = [Iterated(un) EXCEPT !.scope = r.scope]
         /\ UNCHANGED <<pc, idx, scope, err, events, crashed>>

\* lines 711-719: the sub-pipeline returned r, and the condition evaluates
\* to proceed over the scope it returned
UntilAfter(step, r, proceed) ==
    IF r.panic # NoPanic
    THEN /\ crashed' = TRUE
         /\ pc' = "panicked"
         /\ un' = Iterated(un)
         /\ UNCHANGED <<idx, scope, err, events>>
    ELSE IF r.err # NilErr
    THEN /\ UntilReturns(events, step, r.scope, r.err)
         /\ un' = [Iterated(un) EXCEPT !.active = FALSE, !.scope = r.scope]
    ELSE IF proceed.err # NilErr
    THEN /\ UntilReturns(events, step, r.scope, proceed.err)
         /\ un' = [Iterated(un) EXCEPT !.active = FALSE, !.scope = r.scope,
                                       !.evals = Recorded(un.evals, proceed)]
    ELSE /\ un' = [Iterated(un) EXCEPT !.scope = r.scope,
                                       !.proceed = proceed.value,
                                       !.evals = Recorded(un.evals, proceed)]
         /\ UNCHANGED <<pc, idx, scope, err, events, crashed>>

UntilBody(step, r) ==
    UntilAfter(step, r, BoolEval(step.params.condition, r.scope))

\* lines 710-720: one iteration of the loop
UntilIterate ==
    /\ pc = "until" /\ ~crashed
    /\ un.proceed /\ ~un.scope.Finished
    /\ UntilBody(pipe.Steps[idx],
                 PipelineExecute(UntilPipeline(pipe.Steps[idx]), un.scope))
    /\ UNCHANGED <<pipe, fo, feeder, workers, units, mem, cat, calls, itc, ev>>

\* lines 710 and 722: the loop ends
UntilReturn ==
    /\ pc = "until" /\ ~crashed
    /\ ~(un.proceed /\ ~un.scope.Finished)
    /\ UntilReturns(events, pipe.Steps[idx], un.scope, NilErr)
    /\ un' = [un EXCEPT !.active = FALSE]
    /\ UNCHANGED <<pipe, fo, feeder, workers, units, mem, cat, calls, itc, ev>>

\* the caller cancels the context it passed to Pipeline.Execute
UntilCancel ==
    /\ pc = "until" /\ ~crashed
    /\ ~un.cancelled
    /\ un' = [un EXCEPT !.cancelled = TRUE]
    /\ UNCHANGED <<pipe, pc, idx, scope, err, events, crashed, fo, feeder,
                   workers, units, mem, cat, calls, itc, ev>>

Lt(path, value) == [kind |-> "lt", path |-> path, value |-> value]

Inc(path) == [kind |-> "inc", path |-> path]

Counter == SetStep("counter", Inc("counter"))

\* conditions over the counter, and conditions that do not read it
CounterConditions == {Lt("counter", n) : n \in 0..MaxCount}

OtherConditions == {Text("true"), Text("false"), Fail, Lt("missing", 1)}

\* sub-pipelines that end the loop by themselves when the counter is 2, or
\* at once
EndingSubMenu ==
    { <<Counter, StopStep(Eq("counter", 2), Text(Boom), Text("false"))>>,
      <<Counter, StopStep(Eq("counter", 2), Text(Boom), Text("true"))>>,
      <<CustomStep("p", "panic", "oops")>> }

UntilMenu ==
    {UntilStep(condition, steps) :
        condition \in CounterConditions \cup OtherConditions,
        steps \in EndingSubMenu \cup {<<SetStep("a", Lit(1))>>}}
    \cup {UntilStep(condition, <<Counter>>) : condition \in CounterConditions}

UntilPipelines ==
    {Pipeline("", "main", <<SetStep("counter", Lit(0)), until, After1>>) :
        until \in UntilMenu}

UntilInit ==
    /\ pipe \in UntilPipelines
    /\ pc = "start"
    /\ idx = 1
    /\ scope = NewScope
    /\ err = NilErr
    /\ events = <<>>
    /\ crashed = FALSE
    /\ fo = NoFanout
    /\ feeder = NoFeeder
    /\ workers = <<>>
    /\ units = <<>>
    /\ mem = NoMem
    /\ un = NoUntil
    /\ cat = NoCatalogCall
    /\ calls = NoCalls
    /\ itc = NoItc
    /\ ev = NoEval

UntilNext ==
    \/ ExecuteUses
    \/ ExecuteStep
    \/ ReturnFinished
    \/ ReturnCompleted
    \/ DispatchUntil
    \/ UntilIterate
    \/ UntilReturn
    \/ UntilCancel

UntilSpec == UntilInit /\ [][UntilNext]_vars

(***************************************************************************)
(* Pipelines.Execute called by the embedding program with a list of ids,   *)
(* one action per iteration of its loop.  events is the history of the     *)
(* pipelines it executes: a dispatch and a return per position of the list.*)
(***************************************************************************)
\* mutant: the loop goes on to the next id after a pipeline failed
CatalogAfterIgnoreError(before, r) ==
    IF r.panic # NoPanic
    THEN /\ crashed' = TRUE
         /\ pc' = "panicked"
         /\ events' = before
         /\ UNCHANGED <<scope, err, cat>>
    ELSE /\ scope' = r.scope
         /\ events' = Append(before, Event("return", cat.i, r.scope, r.err))
         /\ crashed' = crashed
         /\ err' = r.err
         /\ pc' = "catalog"
         /\ cat' = [cat EXCEPT !.i = cat.i + 1]

\* lines 28-33: pipe.Execute returned r
CatalogAfter(before, r) ==
    IF r.panic # NoPanic
    THEN /\ crashed' = TRUE
         /\ pc' = "panicked"
         /\ events' = before
         /\ UNCHANGED <<scope, err, cat>>
    ELSE /\ scope' = r.scope
         /\ events' = Append(before, Event("return", cat.i, r.scope, r.err))
         /\ crashed' = crashed
         /\ err' = r.err
         /\ pc' = IF r.err # NilErr THEN "done" ELSE "catalog"
         /\ cat' = IF r.err # NilErr THEN cat ELSE [cat EXCEPT !.i = cat.i + 1]

HasNextId == cat.i <= Len(cat.ids)

\* lines 22-33: the id is in the catalog, its pipeline is executed
CatalogExecute ==
    /\ pc = "catalog" /\ ~crashed
    /\ HasNextId
    /\ cat.ids[cat.i] \in DOMAIN Catalog
    /\ CatalogAfter(Append(events, Event("dispatch", cat.i, scope, NilErr)),
                    PipelineExecute(Catalog[cat.ids[cat.i]], scope))
    /\ UNCHANGED <<pipe, idx, fo, feeder, workers, units, mem, un, calls, itc, ev>>

\* lines 23-26: the id is not in the catalog
CatalogNotFound ==
    /\ pc = "catalog" /\ ~crashed
    /\ HasNextId
    /\ cat.ids[cat.i] \notin DOMAIN Catalog
    /\ err' = ErrPipelineNotFound(cat.ids[cat.i])
    /\ pc' = "done"
    /\ UNCHANGED <<pipe, idx, scope, events, crashed, fo, feeder, workers,
                   units, mem, un, cat, calls, itc, ev>>

\* line 36: every id was executed
CatalogReturn ==
    /\ pc = "catalog" /\ ~crashed
    /\ ~HasNextId
    /\ err' = NilErr
    /\ pc' = "done"
    /\ UNCHANGED <<pipe, idx, scope, events, crashed, fo, feeder, workers,
                   units, mem, un, cat, calls, itc, ev>>

IdMenu == {"base", "broken", "copy", "chain", "finish", "missing"}

CatalogInit ==
    /\ pipe = Pipeline("", "", <<>>)
    /\ pc = "catalog"
    /\ idx = 1
    /\ scope = NewScope
    /\ err = NilErr
    /\ events = <<>>
    /\ crashed = FALSE
    /\ fo = NoFanout
    /\ feeder = NoFeeder
    /\ workers = <<>>
    /\ units = <<>>
    /\ mem = NoMem
    /\ un = NoUntil
    /\ cat \in {[ids |-> ids, i |-> 1] : ids \in SeqOver(IdMenu, MaxIds)}
    /\ calls = NoCalls
    /\ itc = NoItc
    /\ ev = NoEval

CatalogNext ==
    \/ CatalogExecute
    \/ CatalogNotFound
    \/ CatalogReturn

CatalogSpec == CatalogInit /\ [][CatalogNext]_vars

(***************************************************************************)
(* Pipeline.Execute through Uses, call by call.  calls.frames is the stack *)
(* of the Pipeline.Execute calls in progress, the innermost last; a frame  *)
(* is at "uses" before its Uses prologue and at "steps" after it.          *)
(* calls.ran is the history of the steps dispatched.  A goroutine's stack  *)
(* is bounded: the call that would make it deeper than MaxDepth ends the   *)
(* process (fatal error: stack overflow), which no recover catches.        *)
(***************************************************************************)
Frame(p, at) == [p |-> p, at |-> at]

Top == calls.frames[Len(calls.frames)]

Pop(frames) == SubSeq(frames, 1, Len(frames) - 1)

\* mutant: a pipeline that is already being executed is not entered again
UsesEnterOnce(frames, id) ==
    IF \E i \in DOMAIN frames : frames[i].p.ID = id
    THEN [frames EXCEPT ![Len(frames)].at = "steps"]
    ELSE Append([frames EXCEPT ![Len(frames)].at = "steps"],
                Frame(Catalog[id], "uses"))

\* pipeline.go 91, 23 and 29: the caller waits for the pipeline Uses names
UsesEnter(frames, id) ==
    Append([frames EXCEPT ![Len(frames)].at = "steps"],
           Frame(Catalog[id], "uses"))

CallsUses ==
    /\ pc = "uses" /\ ~crashed
    /\ Top.at = "uses"
    /\ Top.p.Uses # ""

\* lines 90-91 and 21-29: the Uses prologue finds the pipeline and calls it
UsesCall ==
    /\ CallsUses
    /\ Top.p.Uses \in DOMAIN Catalog
    /\ Len(calls.frames) < MaxDepth
    /\ calls' = [calls EXCEPT !.frames = UsesEnter(@, Top.p.Uses)]
    /\ UNCHANGED <<pipe, pc, idx, scope, err, events, crashed, fo, feeder,
                   workers, units, mem, un, cat, itc, ev>>

\* the call would grow the stack beyond its limit
UsesOverflow ==
    /\ CallsUses
    /\ Top.p.Uses \in DOMAIN Catalog
    /\ Len(calls.frames) >= MaxDepth
    /\ crashed' = TRUE
    /\ UNCHANGED <<pipe, pc, idx, scope, err, events, fo, feeder, workers,
                   units, mem, un, cat, calls, itc, ev>>

Returned(frames) == IF frames = <<>> THEN "done" ELSE "uses"

\* lines 23-26 and 92-94: the pipeline Uses names is not in the catalog
UsesNotFound ==
    /\ CallsUses
    /\ Top.p.Uses \notin DOMAIN Catalog
    /\ err' = ErrPipelineNotFound(Top.p.Uses)
    /\ calls' = [calls EXCEPT !.frames = Pop(@)]
    /\ pc' = Returned(Pop(calls.frames))
    /\ UNCHANGED <<pipe, idx, scope, events, crashed, fo, feeder, workers,
                   units, mem, un, cat, itc, ev>>

\* lines 92-94 and 31-33: the pipeline Uses named failed, the caller returns
UsesFailed ==
    /\ pc = "uses" /\ ~crashed
    /\ Top.at = "steps"
    /\ err # NilErr
    /\ calls' = [calls EXCEPT !.frames = Pop(@)]
    /\ pc' = Returned(Pop(calls.frames))
    /\ UNCHANGED <<pipe, idx, scope, err, events, crashed, fo, feeder,
                   workers, units, mem, un, cat, itc, ev>>

\* lines 97-113: the loop over the steps returned r
StepsAfter(r) ==
    IF r.panic # NoPanic
    THEN /\ crashed' = TRUE
         /\ UNCHANGED <<pc, scope, err, calls>>
    ELSE /\ crashed' = crashed
         /\ scope' = r.scope
         /\ err' = r.err
         /\ calls' = [frames |-> Pop(calls.frames), ran |-> calls.ran \o r.ran]
         /\ pc' = Returned(Pop(calls.frames))

\* lines 97-113: no Uses, or the pipeline Uses named returned a nil error
StepsRun ==
    /\ pc = "uses" /\ ~crashed
    /\ \/ Top.at = "steps" /\ err = NilErr
       \/ Top.at = "uses" /\ Top.p.Uses = ""
    /\ StepsAfter(ForSteps(Top.p.Steps, 1, Result(scope, NilErr)))
    /\ UNCHANGED <<pipe, idx, events, fo, feeder, workers, units, mem, un, cat, itc, ev>>

UsesIds ==
    {"", "base", "chain", "broken", "finish", "ping", "pong", "self", "lead",
     "missing"}

MainSteps ==
    {<<>>, <<SetStep("a", Lit(1))>>,
     <<StopStep(Text("true"), Text("enough"), Text("false"))>>}

\* the pipelines executed: an anonymous one that uses a catalog pipeline, or
\* a pipeline of the catalog
UsesPipelines ==
    {Pipeline(uses, "main", steps) : uses \in UsesIds, steps \in MainSteps}
        \cup {Catalog[id] : id \in DOMAIN Catalog}

Finish(c) == [c EXCEPT !.Finished = TRUE]

\* a scope that holds a variable
Seeded == WithVariable(NewScope, "a", 0)

\* the scopes Pipeline.Execute is called with
UsesScopes == {NewScope, Finish(NewScope), Finish(Seeded)}

UsesInit ==
    /\ pipe \in UsesPipelines
    /\ pc = "uses"
    /\ idx = 1
    /\ scope \in UsesScopes
    /\ err = NilErr
    /\ events = <<>>
    /\ crashed = FALSE
    /\ fo = NoFanout
    /\ feeder = NoFeeder
    /\ workers = <<>>
    /\ units = <<>>
    /\ mem = NoMem
    /\ un = NoUntil
    /\ cat = NoCatalogCall
    /\ calls = [frames |-> <<Frame(pipe, "uses")>>, ran |-> <<>>]
    /\ itc = NoItc
    /\ ev = NoEval

UsesNext ==
    \/ UsesCall
    \/ UsesOverflow
    \/ UsesNotFound
    \/ UsesFailed
    \/ StepsRun

UsesSpec == UsesInit /\ [][UsesNext]_vars

(***************************************************************************)
(* The interceptors.  interceptor and stepInterceptor are package          *)
(* variables that SetInterceptor and SetStepInterceptor assign; init       *)
(* installs the defaults.  Pipeline.Execute reads interceptor when it is   *)
(* called, StepExecutors.Execute reads stepInterceptor when it has found   *)
(* the executor.  Goroutines (the embedding program's, or the workers of a *)
(* pool, which execute the same pipeline) run Pipeline.Execute call by     *)
(* call and step by step, and the setters run at any moment between; a     *)
(* read that is concurrent with an assignment yields the old or the new    *)
(* value, as the read placed before or after it does.  Every installed     *)
(* interceptor calls the executor it is given.  itc.sets is the history of *)
(* the assignments of each variable; the log of a goroutine is the history *)
(* of its calls of Pipeline.Execute and of its dispatches, and of the      *)
(* interceptor each of them went through, with the number of assignments   *)
(* of the variable made before.                                            *)
(***************************************************************************)
\* mutant: the step interceptor installed by init is used for every dispatch
stepInterceptorOfInit == "default"

interceptor == itc.pipeline

stepInterceptor == itc.step

Ev(kind, what, by, after) ==
    [kind |-> kind, what |-> what, by |-> by, after |-> after]

ItcFrame(p, via) == [p |-> p, at |-> "uses", i |-> 1, via |-> via]

Goroutine(p) ==
    [todo |-> p, at |-> "call", frames |-> <<>>, scope |-> NewScope,
     err |-> NilErr, log |-> <<>>]

\* pipeline.go 84-85: Pipeline.Execute is called and calls the interceptor
Entered(log, p) ==
    log \o <<Ev("call", p.ID, "", 0),
             Ev("pipeline", p.ID, interceptor, Len(itc.sets.pipeline))>>

\* step.go 470-478: the step is dispatched; the step interceptor is called
\* if its type is registered
Intercepted(log, step) ==
    log \o <<Ev("dispatch", step.type, "", 0)>>
        \o (IF step.type \in RegisteredTypes
            THEN <<Ev("step", step.type, stepInterceptor, Len(itc.sets.step))>>
            ELSE <<>>)

Sets == Len(itc.sets.pipeline) + Len(itc.sets.step)

SetInterceptor(k) ==
    /\ pc = "itc" /\ Sets < MaxSets
    /\ itc' = [itc EXCEPT !.pipeline = k, !.sets.pipeline = Append(@, k)]
    /\ UNCHANGED <<pipe, pc, idx, scope, err, events, crashed, fo, feeder,
                   workers, units, mem, un, cat, calls, ev>>

SetStepInterceptor(k) ==
    /\ pc = "itc" /\ Sets < MaxSets
    /\ itc' = [itc EXCEPT !.step = k, !.sets.step = Append(@, k)]
    /\ UNCHANGED <<pipe, pc, idx, scope, err, events, crashed, fo, feeder,
                   workers, units, mem, un, cat, calls, ev>>

Running(g) == pc = "itc" /\ ~crashed /\ itc.gs[g].at = "run"

Innermost(g) == itc.gs[g].frames[Len(itc.gs[g].frames)]

\* the call is past its Uses prologue
InSteps(g) ==
    \/ Innermost(g).at = "steps"
    \/ Innermost(g).at = "uses" /\ Innermost(g).p.Uses = ""

Calling(frames, p, via) ==
    Append([frames EXCEPT ![Len(frames)].at = "steps"], ItcFrame(p, via))

\* goroutine g calls Pipeline.Execute
GoExecute(g) ==
    /\ pc = "itc" /\ ~crashed
    /\ itc.gs[g].at = "call"
    /\ itc' = [itc EXCEPT
                  !.gs[g].at = "run",
                  !.gs[g].frames = <<ItcFrame(itc.gs[g].todo, <<>>)>>,
                  !.gs[g].log = Entered(@, itc.gs[g].todo)]
    /\ UNCHANGED <<pipe, pc, idx, scope, err, events, crashed, fo, feeder,
                   workers, units, mem, un, cat, calls, ev>>

\* pipeline.go 90-91 and 21-29: the Uses prologue calls the named pipeline
GoUses(g) ==
    /\ Running(g)
    /\ Innermost(g).at = "uses" /\ Innermost(g).p.Uses \in DOMAIN Catalog
    /\ itc' = [itc EXCEPT
                  !.gs[g].frames =
                      Calling(@, Catalog[Innermost(g).p.Uses], <<>>),
                  !.gs[g].log = Entered(@, Catalog[Innermost(g).p.Uses])]
    /\ UNCHANGED <<pipe, pc, idx, scope, err, events, crashed, fo, feeder,
                   workers, units, mem, un, cat, calls, ev>>

\* pipeline.go 23-26 and 92-94: the named pipeline is not in the catalog
GoUsesNotFound(g) ==
    /\ Running(g)
    /\ Innermost(g).at = "uses"
    /\ Innermost(g).p.Uses \notin DOMAIN Catalog \cup {""}
    /\ itc' = [itc EXCEPT
                  !.gs[g].frames[Len(itc.gs[g].frames)].at = "steps",
                  !.gs[g].err = ErrPipelineNotFound(Innermost(g).p.Uses)]
    /\ UNCHANGED <<pipe, pc, idx, scope, err, events, crashed, fo, feeder,
                   workers, units, mem, un, cat, calls, ev>>

CanStep(g) ==
    /\ Running(g)
    /\ InSteps(g)
    /\ itc.gs[g].err = NilErr
    /\ Innermost(g).i <= Len(Innermost(g).p.Steps)
    /\ ~itc.gs[g].scope.Finished

Stepped(frames) ==
    [frames EXCEPT ![Len(frames)].at = "steps", ![Len(frames)].i = @ + 1]

\* step.go 472-476: no executor is registered for the type of the step
GoStepUnknown(g, step) ==
    /\ step.type \notin RegisteredTypes
    /\ itc' = [itc EXCEPT
                  !.gs[g].frames = Stepped(@),
                  !.gs[g].err = UnknownStepType(itc.gs[g].scope, step).err,
                  !.gs[g].log = Intercepted(@, step)]
    /\ UNCHANGED crashed

\* step.go 478, 513-515: a pipeline step calls Pipeline.Execute
GoStepPipeline(g, step) ==
    /\ step.type = "pipeline" /\ step.decodable
    /\ itc' = [itc EXCEPT
                  !.gs[g].frames = Calling(Stepped(@), step.params, <<step>>),
                  !.gs[g].log = Entered(Intercepted(@, step), step.params)]
    /\ UNCHANGED crashed

\* step.go 478-483: the executor returned r
GoStepAfter(g, step, r) ==
    IF r.panic # NoPanic
    THEN /\ crashed' = TRUE
         /\ UNCHANGED itc
    ELSE /\ crashed' = crashed
         /\ itc' = [itc EXCEPT
                       !.gs[g].frames = Stepped(@),
                       !.gs[g].scope = r.scope,
                       !.gs[g].err = WrapStepError(step, r.err),
                       !.gs[g].log = Intercepted(@, step)]

GoStepOther(g, step) ==
    /\ step.type \in RegisteredTypes
    /\ ~(step.type = "pipeline" /\ step.decodable)
    /\ GoStepAfter(g, step, Registered(itc.gs[g].scope, step))

\* pipeline.go 97-102: one iteration of the loop over the steps
GoStep(g) ==
    /\ CanStep(g)
    /\ \/ GoStepUnknown(g, Innermost(g).p.Steps[Innermost(g).i])
       \/ GoStepPipeline(g, Innermost(g).p.Steps[Innermost(g).i])
       \/ GoStepOther(g, Innermost(g).p.Steps[Innermost(g).i])
    /\ UNCHANGED <<pipe, pc, idx, scope, err, events, fo, feeder, workers,
                   units, mem, un, cat, calls, ev>>

\* step.go 478-481: a pipeline step wraps the error of its pipeline
ReturnedErr(frame, e) ==
    IF frame.via # <<>> THEN WrapStepError(frame.via[1], e) ELSE e

\* pipeline.go 93, 99, 107, 113: the innermost Pipeline.Execute call returns
GoReturn(g) ==
    /\ Running(g)
    /\ InSteps(g)
    /\ ~CanStep(g)
    /\ itc' = [itc EXCEPT
                  !.gs[g].frames = Pop(@),
                  !.gs[g].err = ReturnedErr(Innermost(g), @),
                  !.gs[g].at = IF Len(itc.gs[g].frames) = 1 THEN "done" ELSE @]
    /\ UNCHANGED <<pipe, pc, idx, scope, err, events, crashed, fo, feeder,
                   workers, units, mem, un, cat, calls, ev>>

ItcNames == {"first", "second"}

Inner == Pipeline("", "inner", <<LogStep(Text("hello"))>>)

ItcPipelines ==
    { Pipeline("base", "main",
               <<Step("pipeline", "p", TRUE, Inner), SetStep("a", Lit(1))>>),
      Pipeline("", "main",
               <<Step("bogus", "x", TRUE, [value |-> Lit(1)]),
                 SetStep("a", Lit(1))>>),
      Pipeline("missing", "main", <<SetStep("a", Lit(1))>>),
      Pipeline("", "main",
               <<Step("pipeline", "p", TRUE,
                      Pipeline("", "inner", <<SetStep("a", Fail)>>)),
                 SetStep("a", Lit(1))>>),
      Pipeline("finish", "main", <<SetStep("a", Lit(1))>>) }

\* the pipelines the workers of a pool execute
WorkerPipelines ==
    { Pipeline("", "", <<SetStep("a", Lit(1))>>),
      Pipeline("", "", <<Step("bogus", "x", TRUE, [value |-> Lit(1)])>>) }

ItcInit ==
    /\ pipe = Pipeline("", "", <<>>)
    /\ pc = "itc"
    /\ idx = 1
    /\ scope = NewScope
    /\ err = NilErr
    /\ events = <<>>
    /\ crashed = FALSE
    /\ fo = NoFanout
    /\ feeder = NoFeeder
    /\ workers = <<>>
    /\ units = <<>>
    /\ mem = NoMem
    /\ un = NoUntil
    /\ cat = NoCatalogCall
    /\ calls = NoCalls
    /\ \E gs \in {<<Goroutine(p)>> : p \in ItcPipelines}
                    \cup {[g \in 1..n |-> Goroutine(p)] :
                              n \in 2..MaxGo, p \in WorkerPipelines} :
          itc = [NoItc EXCEPT !.gs = gs]
    /\ ev = NoEval

ItcNext ==
    \/ \E k \in ItcNames : SetInterceptor(k)
    \/ \E k \in ItcNames : SetStepInterceptor(k)
    \/ \E g \in DOMAIN itc.gs : GoExecute(g)
    \/ \E g \in DOMAIN itc.gs : GoUses(g)
    \/ \E g \in DOMAIN itc.gs : GoUsesNotFound(g)
    \/ \E g \in DOMAIN itc.gs : GoStep(g)
    \/ \E g \in DOMAIN itc.gs : GoReturn(g)

ItcSpec == ItcInit /\ [][ItcNext]_vars

(***************************************************************************)
(* Eval of each expression kind, called by a program with an expression    *)
(* and a scope.                                                            *)
(***************************************************************************)
Blank == [kind |-> "blank"]

Evaluation(kind, e, c) ==
    [kind |-> kind, expr |-> e, scope |-> c, done |-> FALSE, value |-> 0,
     err |-> NilErr]

EvalAs(kind, e, c) ==
    CASE kind = "bool" -> BoolEval(e, c)
      [] kind = "int" -> IntEval(e, c)
      [] kind = "duration" -> DurationEval(e, c)
      [] kind = "json" -> JSONEval(e, c)
      [] kind = "yaml" -> YAMLEval(e, c)

Evaluated(r) == [ev EXCEPT !.done = TRUE, !.value = r.value, !.err = r.err]

Evaluate ==
    /\ pc = "eval" /\ ~ev.done
    /\ ev' = Evaluated(EvalAs(ev.kind, ev.expr, ev.scope))
    /\ UNCHANGED <<pipe, pc, idx, scope, err, events, crashed, fo, feeder,
                   workers, units, mem, un, cat, calls, itc>>

Templates(texts) ==
    {Text(t) : t \in texts}
        \cup {Blank, Fail, [kind |-> "eq", path |-> "u", value |-> 7],
              [kind |-> "ne", path |-> "u", value |-> 7]}

EvalMenu ==
    {Evaluation("bool", e, c) :
        e \in Templates({"", "true", "false", "1", "T", "yes"}),
        c \in {NewScope, WithVariable(NewScope, "u", 7)}}
    \cup {Evaluation("int", e, c) :
        e \in Templates({"", "0", "3", "-2", "x"}),
        c \in {NewScope, WithVariable(NewScope, "u", 7)}}
    \cup {Evaluation("duration", e, c) :
        e \in Templates({"", "0", "1us", "2ms", "1s", "5"}),
        c \in {NewScope, WithVariable(NewScope, "u", 7)}}
    \cup {Evaluation("json", e, c) :
        e \in Templates({"", "null", "[]", "[1]", "[1,2]", "{"}),
        c \in {NewScope, WithVariable(NewScope, "u", 7)}}
    \cup {Evaluation("yaml", e, c) :
        e \in {Text(""), Text("~"), Text("7"), Text("[1"), Blank, Fail},
        c \in {NewScope, WithVariable(NewScope, "u", 7)}}

EvalInit ==
    /\ pipe = Pipeline("", "", <<>>)
    /\ pc = "eval"
    /\ idx = 1
    /\ scope = NewScope
    /\ err = NilErr
    /\ events = <<>>
    /\ crashed = FALSE
    /\ fo = NoFanout
    /\ feeder = NoFeeder
    /\ workers = <<>>
    /\ units = <<>>
    /\ mem = NoMem
    /\ un = NoUntil
    /\ cat = NoCatalogCall
    /\ calls = NoCalls
    /\ itc = NoItc
    /\ ev \in EvalMenu

EvalNext == Evaluate

EvalSpec == EvalInit /\ [][EvalNext]_vars

(***************************************************************************)
(* The Scope operations over map instances.  Go maps are references: a     *)
(* Scope value holds a reference to a map instance, and copying the Scope  *)
(* value copies the reference.  mem.heap is the sequence of the map        *)
(* instances allocated so far, a Scope value is its Finished flag with an  *)
(* index of mem.heap, and an operation yields the heap after it and the    *)
(* Scope value it returns.                                                 *)
(***************************************************************************)
ScopeValue(finished, ref) == [Finished |-> finished, variables |-> ref]

Out(heap, c) == [heap |-> heap, scope |-> c]

\* lines 113-119: the new map, the copy loop and the write
Copied(m, path, item) ==
    [k \in (DOMAIN m) \cup {path} |-> IF k = path THEN item ELSE m[k]]

\* mutant: the write is made into the receiver's own map
ScopeWithVariableInPlace(heap, c, path, item) ==
    IF path = ""
    THEN Out(heap, c)
    ELSE Out([heap EXCEPT ![c.variables] = Copied(heap[c.variables], path, item)],
             c)

\* mutant: a write of the value the path already holds returns the receiver
ScopeWithVariableSkipSame(heap, c, path, item) ==
    IF path = ""
    THEN Out(heap, c)
    ELSE IF path \in DOMAIN heap[c.variables] /\ heap[c.variables][path] = item
    THEN Out(heap, c)
    ELSE Out(Append(heap, Copied(heap[c.variables], path, item)),
             [c EXCEPT !.variables = Len(heap) + 1])

\* mutant: a path the receiver's map already holds is overwritten in it
ScopeWithVariableOverwrite(heap, c, path, item) ==
    IF path = ""
    THEN Out(heap, c)
    ELSE IF path \in DOMAIN heap[c.variables]
    THEN Out([heap EXCEPT ![c.variables][path] = item], c)
    ELSE Out(Append(heap, Copied(heap[c.variables], path, item)),
             [c EXCEPT !.variables = Len(heap) + 1])

ScopeWithVariable(heap, c, path, item) ==
    IF path = ""
    THEN Out(heap, c)
    ELSE Out(Append(heap, Copied(heap[c.variables], path, item)),
             [c EXCEPT !.variables = Len(heap) + 1])

RECURSIVE ScopeWithVariablesOver(_, _, _)
ScopeWithVariablesOver(o, items, paths) ==
    IF paths = {}
    THEN o
    ELSE LET path == CHOOSE p \in paths : TRUE
         IN  ScopeWithVariablesOver(
                 ScopeWithVariable(o.heap, o.scope, path, items[path]),
                 items, paths \ {path})

ScopeWithVariables(heap, c, items) ==
    ScopeWithVariablesOver(Out(heap, c), items, DOMAIN items)

ScopeClone(heap, c) ==
    Out(Append(heap, [k \in DOMAIN heap[c.variables] |-> heap[c.variables][k]]),
        [c EXCEPT !.variables = Len(heap) + 1])

\* mutant: the receiver's value wins at a path both scopes hold
ScopeMergeKeep(heap, c, ctx) ==
    ScopeWithVariables(heap, c,
        [k \in (DOMAIN heap[ctx.variables]) \ (DOMAIN heap[c.variables]) |->
            heap[ctx.variables][k]])

ScopeMerge(heap, c, ctx) == ScopeWithVariables(heap, c, heap[ctx.variables])

(***************************************************************************)
(* A program that uses the Scope operations directly.  It holds a scope s, *)
(* a scope t it merges from, and, once it has cloned s, the clone c; it    *)
(* replaces s or c by the result of an operation on it.  Values are texts  *)
(* that name who wrote them.  mem.last is the last call, with the heap     *)
(* before it; mem.orig and mem.snap are s and its variables at the clone.  *)
(***************************************************************************)
Nil == "nil"

Paths == {"", "x", "y"}

MapsOver(P, v) == UNION {[Q -> {v}] : Q \in SUBSET P}

ItemMaps == {EmptyVariables, "x" :> "w", "y" :> Nil, ("" :> "w") @@ ("x" :> "w")}

NoCall ==
    [op |-> "", on |-> "", recv |-> ScopeValue(FALSE, 0), path |-> "",
     items |-> EmptyVariables, result |-> ScopeValue(FALSE, 0), heap |-> <<>>]

Call(op, on, recv, path, items, result) ==
    [op |-> op, on |-> on, recv |-> recv, path |-> path, items |-> items,
     result |-> result, heap |-> mem.heap]

Mem(heap, s, t) ==
    [heap |-> heap, s |-> s, c |-> ScopeValue(FALSE, 0), t |-> t,
     cloned |-> FALSE, orig |-> ScopeValue(FALSE, 0), snap |-> EmptyVariables,
     n |-> 0, last |-> NoCall]

engine ==
    <<pipe, pc, idx, scope, err, events, crashed, fo, feeder, workers, units,
      un, cat, calls, itc, ev>>

Held(on) == IF on = "s" THEN mem.s ELSE mem.c

\* the program goes on with the scope o.scope in place of the one it held
Replaced(on, o, call) ==
    /\ mem' = [mem EXCEPT !.heap = o.heap,
                          !.s = IF on = "s" THEN o.scope ELSE mem.s,
                          !.c = IF on = "c" THEN o.scope ELSE mem.c,
                          !.n = mem.n + 1,
                          !.last = [call EXCEPT !.result = o.scope]]
    /\ UNCHANGED engine

CanCall(on) ==
    /\ pc = "scope"
    /\ mem.n < MaxOps
    /\ on = "c" => mem.cloned

DoWithVariable ==
    \E on \in {"s", "c"}, path \in Paths, nil \in BOOLEAN :
        /\ CanCall(on)
        /\ Replaced(on,
                    ScopeWithVariable(mem.heap, Held(on), path,
                                      IF nil THEN Nil ELSE on),
                    Call("WithVariable", on, Held(on), path,
                         path :> (IF nil THEN Nil ELSE on), Held(on)))

DoWithVariables ==
    \E on \in {"s", "c"}, items \in ItemMaps :
        /\ CanCall(on)
        /\ Replaced(on, ScopeWithVariables(mem.heap, Held(on), items),
                    Call("WithVariables", on, Held(on), "", items, Held(on)))

DoMerge ==
    \E on \in {"s", "c"} :
        /\ CanCall(on)
        /\ Replaced(on, ScopeMerge(mem.heap, Held(on), mem.t),
                    Call("Merge", on, Held(on), "", mem.heap[mem.t.variables],
                         Held(on)))

Cloned(o) ==
    /\ mem' = [mem EXCEPT !.heap = o.heap, !.c = o.scope, !.cloned = TRUE,
                          !.orig = mem.s, !.snap = mem.heap[mem.s.variables],
                          !.n = mem.n + 1,
                          !.last = Call("Clone", "s", mem.s, "", EmptyVariables,
                                        o.scope)]
    /\ UNCHANGED engine

DoClone ==
    /\ pc = "scope"
    /\ mem.n < MaxOps
    /\ ~mem.cloned
    /\ Cloned(ScopeClone(mem.heap, mem.s))

ScopeInit ==
    /\ pipe = Pipeline("", "", <<>>)
    /\ pc = "scope"
    /\ idx = 1
    /\ scope = NewScope
    /\ err = NilErr
    /\ events = <<>>
    /\ crashed = FALSE
    /\ fo = NoFanout
    /\ feeder = NoFeeder
    /\ workers = <<>>
    /\ units = <<>>
    /\ un = NoUntil
    /\ cat = NoCatalogCall
    /\ calls = NoCalls
    /\ itc = NoItc
    /\ ev = NoEval
    /\ mem \in {Mem(<<ms, mt>>, ScopeValue(FALSE, 1), ScopeValue(finished, 2)) :
                  ms \in MapsOver({"x", "y"}, "init"),
                  mt \in MapsOver({"x", "z"}, "t"),
                  finished \in BOOLEAN}

ScopeNext ==
    \/ DoWithVariable
    \/ DoWithVariables
    \/ DoMerge
    \/ DoClone

ScopeSpec == ScopeInit /\ [][ScopeNext]_vars

(***************************************************************************)
(* Properties of the sequential engine.                                    *)
(***************************************************************************)
Dispatches == {n \in DOMAIN events : events[n].kind = "dispatch"}

Returns == {n \in DOMAIN events : events[n].kind = "return"}

DispatchedSteps == {events[n].i : n \in Dispatches}

Odd(n) == n % 2 = 1

\* the stop step dispatched at event n evaluates all its parameters, its
\* condition to true and is_error to isError
StopFires(n, isError) ==
    LET step == pipe.Steps[events[n].i]
        c == events[n].scope
    IN  /\ step.type = "stop" /\ step.decodable
        /\ BoolEval(step.params.condition, c) = [value |-> TRUE, err |-> NilErr]
        /\ StringEval(step.params.message, c).err = NilErr
        /\ BoolEval(step.params.is_error, c) = [value |-> isError, err |-> NilErr]

\* C1: the steps are dispatched one at a time in declared order: the history
\* is dispatch 1, return 1, dispatch 2, return 2, ..., so step i+1 is
\* dispatched only after step i returned and no step is dispatched twice, and
\* step i+1 receives exactly the scope step i returned.
C1_SequentialOrder ==
    /\ \A n \in DOMAIN events :
          /\ events[n].i = (n + 1) \div 2
          /\ events[n].kind = IF Odd(n) THEN "dispatch" ELSE "return"
    /\ \A n \in Dispatches :
          n > 1 => /\ events[n - 1].err = NilErr
                   /\ events[n].scope = events[n - 1].scope

C1_Witness ==
    /\ pc = "done"
    /\ Len(events) = 2 * MaxSteps
    /\ events[3].scope.variables # EmptyVariables
    /\ events[5].scope # events[3].scope

C3_StopError ==
    \A n \in Dispatches :
        StopFires(n, TRUE) =>
            /\ DispatchedSteps = 1..events[n].i
            /\ pc = "done"
            /\ err # NilErr
            /\ StringEval(pipe.Steps[events[n].i].params.message,
                          events[n].scope).value \in Range(err)

C3_Witness ==
    /\ pc = "done"
    /\ \E n \in Dispatches :
          /\ StopFires(n, TRUE)
          /\ events[n].i = 2
          /\ events[n].i < Len(pipe.Steps)
          /\ Boom \in Range(err)

\* C4: when a step returns a non-nil error, no later step is executed, the
\* failing step is not dispatched again, and Pipeline.Execute returns that
\* same error value.
C4_ErrorPropagates ==
    \A n \in Returns :
        events[n].err # NilErr =>
            /\ n = Len(events)
            /\ Cardinality({m \in Dispatches : events[m].i = events[n].i}) = 1
            /\ pc = "done"
            /\ err = events[n].err

C4_Witness ==
    /\ pc = "done"
    /\ err # NilErr
    /\ Len(events) = 4
    /\ Len(pipe.Steps) = MaxSteps
    /\ pipe.Steps[2].type = "pipeline" \/ pipe.Steps[2].type = "custom"

\* C5: dispatching a step whose type has no registered executor yields a
\* non-nil error naming the type, leaves the scope unchanged and ends the
\* pipeline with that error: no later step is dispatched.
C5_UnknownStepType ==
    \A n \in Dispatches :
        pipe.Steps[events[n].i].type \notin RegisteredTypes =>
            /\ Len(events) = n + 1
            /\ events[n + 1].err # NilErr
            /\ pipe.Steps[events[n].i].type \in Range(events[n + 1].err)
            /\ events[n + 1].scope = events[n].scope
            /\ scope = events[n].scope
            /\ pc = "done"
            /\ err = events[n + 1].err

C5_Witness ==
    /\ pc = "done"
    /\ \E n \in Dispatches :
          /\ pipe.Steps[events[n].i].type = "bogus"
          /\ events[n].i = 2
          /\ events[n].i < Len(pipe.Steps)
          /\ scope.variables # EmptyVariables

(***************************************************************************)
(* Properties of the fan-out engine.                                       *)
(***************************************************************************)
\* the position of the range or fanout step in the pipeline
FanStep == CHOOSE i \in DOMAIN pipe.Steps : Concurrent(pipe.Steps[i])

\* fanout was called and is running or has returned
FanoutCalled == pc = "fanout" \/ fo.returned

\* fanout has returned a nil error
FanoutReturnedNil == fo.returned /\ fo.err = NilErr

\* the work units whose result the orchestrator has received
Consumed == Range(fo.merged)

Appending == <<SetStep("acc", AppendTo("acc", "r"))>>

\* C6: Finished is a latch over the whole execution tree.  Once a step has
\* returned a finished scope to the step loop, nothing else is dispatched and
\* the loop's scope stays finished; and once the orchestrator has received
\* the result of a work unit whose sub-pipeline finished (a stop step fired
\* in it), the scope the range or fanout step returns is finished and no
\* step after it is dispatched.
C6_FinishedLatch ==
    /\ \A n \in Returns :
          events[n].scope.Finished => n = Len(events) /\ scope.Finished
    /\ (FanoutReturnedNil /\ \E i \in Consumed : units[i].finished) =>
          /\ fo.scope.Finished
          /\ scope.Finished
          /\ \A n \in Dispatches : events[n].i <= FanStep

\* C7: when fanout returns a nil error, a value that one work unit's
\* sub-pipeline wrote at a path no other unit's sub-pipeline wrote is the
\* value the returned scope holds at that path.
C7_DistinctWritesKept ==
    FanoutReturnedNil =>
        \A i \in DOMAIN units :
            \A p \in DOMAIN units[i].wrote :
                (\A j \in DOMAIN units : j # i => p \notin DOMAIN units[j].wrote)
                    => /\ p \in DOMAIN fo.scope.variables
                       /\ fo.scope.variables[p] = units[i].wrote[p]

\* C8: when a range or fanout step returns a nil error, every work unit's
\* sub-pipeline has been invoked exactly once, and the orchestrator has
\* received exactly one result per unit: as many results as items, one of
\* each unit.
C8_EachItemOnce ==
    FanoutReturnedNil =>
        /\ fo.cap >= 1 \/ fo.items = <<>>
        /\ fo.k = Len(fo.items)
        /\ Len(fo.merged) = Len(fo.items)
        /\ \A i \in DOMAIN units :
              /\ units[i].invoked = 1
              /\ units[i].done
              /\ Cardinality({n \in DOMAIN fo.merged : fo.merged[n] = i}) = 1

C8_Witness ==
    /\ FanoutReturnedNil
    /\ Len(fo.items) = MaxItems
    /\ fo.cap = MaxConc
    /\ fo.merged # [i \in 1..MaxItems |-> i]
    /\ \E i, j \in DOMAIN units : units[i].worker # units[j].worker

\* C9: with concurrency 1 a range step runs its sub-pipeline for the items
\* strictly in input order (unit i+1 is started only after unit i ended, and
\* the results arrive in that order), and a sub-pipeline that appends its
\* item to the accumulator leaves, in the scope the range step returns, the
\* accumulator equal to the list of items: a function of the input alone,
\* the same on every run.
C9_InputOrder ==
    (FanoutCalled /\ pipe.Steps[FanStep].type = "range" /\ fo.cap = 1) =>
        /\ fo.started = [i \in 1..Len(fo.started) |-> i]
        /\ fo.merged = [i \in 1..Len(fo.merged) |-> i]
        /\ \A i \in DOMAIN units :
              units[i].invoked > 0 => \A j \in 1..(i - 1) : units[j].done
        /\ (FanoutReturnedNil /\ pipe.Steps[FanStep].params.Steps = Appending) =>
              /\ fo.scope.variables["acc"] = pipe.Steps[FanStep].params.items
              /\ scope.variables["acc"] = pipe.Steps[FanStep].params.items

C9_Witness ==
    /\ pc = "done"
    /\ FanoutReturnedNil
    /\ pipe.Steps[FanStep].type = "range"
    /\ fo.cap = 1
    /\ pipe.Steps[FanStep].params.Steps = Appending
    /\ Len(pipe.Steps[FanStep].params.items) = MaxItems
    /\ scope.variables["acc"] = [i \in 1..MaxItems |-> i]

\* C10: in every execution of fanout, also when a unit's sub-pipeline panics
\* or fails and fanout returns while items are unsent, no goroutine (worker,
\* feeder, orchestrator) raises a panic that nothing recovers.
C10_NoUnrecoveredPanic ==
    FanoutCalled => /\ ~crashed
                    /\ feeder.pc # "panicked"
                    /\ pc # "panicked"

\* C11: a panic raised inside a unit's sub-pipeline is recovered by its
\* worker: the worker's result is an error whose text is "panic: " followed
\* by the panic value, the goroutine that ran Pipeline.Execute does not
\* panic, fanout never returns a nil error, and when the orchestrator
\* receives that result fanout returns exactly that error.
C11_PanicBecomesError ==
    \A i \in DOMAIN units :
        units[i].panicked =>
            /\ pc # "panicked"
            /\ crashed => feeder.pc = "panicked"
            /\ workers[units[i].worker].result.unit = i
            /\ workers[units[i].worker].result.error = <<"panic: ", units[i].panic>>
            /\ fo.returned => fo.err # NilErr
            /\ (fo.returned /\ fo.failed = i) =>
                  /\ fo.err = <<"panic: ", units[i].panic>>
                  /\ err = WrapStepError(pipe.Steps[FanStep], fo.err)

C11_Witness ==
    /\ pc = "done"
    /\ ~crashed
    /\ fo.returned
    /\ fo.failed > 0
    /\ units[fo.failed].panicked
    /\ units[fo.failed].panic = "oops"
    /\ fo.err = <<"panic: ", "oops">>
    /\ fo.merged # <<>>

\* the running scope after the first n received results were merged, in the
\* order they were received
RECURSIVE MergedUpTo(_)
MergedUpTo(n) ==
    IF n = 0 THEN fo.base
    ELSE Merge(MergedUpTo(n - 1), units[fo.merged[n]].scope)

\* C12: when the orchestrator receives a result that carries an error,
\* fanout returns that error at once: the failing result's scope is not
\* merged, no result is received or merged afterwards, and the scope it
\* returns is the scope fanout was called with, merged with the results
\* received before the failing one, in the order of their reception.
C12_ErrorEndsFanout ==
    (fo.returned /\ fo.failed > 0) =>
        /\ fo.err # NilErr
        /\ fo.err = units[fo.failed].err
        /\ fo.failed \notin Range(fo.merged)
        /\ fo.k = Len(fo.merged)
        /\ fo.k < Len(fo.items)
        /\ fo.scope = MergedUpTo(Len(fo.merged))
        /\ events[Len(events)].scope = fo.scope
        /\ pc = "done"
        /\ err = WrapStepError(pipe.Steps[FanStep], fo.err)

C12_Witness ==
    /\ fo.returned /\ fo.failed > 0
    /\ fo.merged # <<>>
    /\ fo.scope # fo.base
    /\ units[fo.failed].scope.variables # fo.scope.variables
    /\ fo.out # <<>>

\* C13: if the context passed to a range or fanout step is cancelled while
\* fanout still waits for results, the fanout call eventually returns; it
\* never blocks forever on its channels.  Every step of the program consumes
\* an item, a result or a position of a goroutine, so no run goes on forever
\* without returning: fanout fails to return exactly when a state is reached
\* in which it has not returned and no goroutine can take a step.  The claim
\* is that no such state is reached after the cancellation.
C13_CancelReturns == (pc = "fanout" /\ fo.cancelled) => ENABLED FanNext

\* the units whose sub-pipeline is being executed
InProgress == {i \in DOMAIN units : units[i].invoked > 0 /\ ~units[i].done}

\* the concurrency the step asks for, 0 replaced by the step's default
EffectiveConcurrency ==
    LET step == pipe.Steps[FanStep]
        asked == IntEval(step.params.concurrency, fo.base).value
    IN  IF asked # 0 THEN asked
        ELSE IF step.type = "range" THEN 1
        ELSE Len(step.params.pipelines)

\* c worker loops were started on channels of capacity c, and at most c
\* executions of a sub-pipeline are in progress
BoundedBy(c) ==
    /\ fo.cap = c
    /\ Len(workers) = c
    /\ Cardinality({w \in DOMAIN workers : workers[w].pc = "execute"}) <= c
    /\ Cardinality(InProgress) <= c

\* C14: at every moment of a fanout with effective concurrency c, exactly c
\* worker loops have been started, and at most c executions of a
\* sub-pipeline are in progress.
C14_BoundedWorkers ==
    FanoutCalled => BoundedBy(EffectiveConcurrency)

C14_Witness ==
    /\ pc = "fanout"
    /\ EffectiveConcurrency = MaxConc
    /\ Len(fo.items) > MaxConc
    /\ Cardinality(InProgress) = MaxConc
    /\ fo.in # <<>>

\* the positions in the order of reception from in, before position n, of
\* the units run by the worker that runs the unit received at position n
EarlierOnWorker(n) ==
    {m \in 1..(n - 1) :
        units[fo.started[m]].worker = units[fo.started[n]].worker}

Latest(S) == CHOOSE m \in S : \A k \in S : k <= m

\* the scope a worker holds when it receives the unit at position n: the
\* scope fanout was called with, or the result of its own previous unit
HeldBefore(n) ==
    IF EarlierOnWorker(n) = {} THEN fo.base
    ELSE units[fo.started[Latest(EarlierOnWorker(n))]].scope

\* C15: the scope a worker executes a unit against is a clone of the scope
\* that worker held (the scope fanout was called with, or the result of the
\* unit that worker ran before), with the unit's variables: it holds nothing
\* written by a unit run on another worker.  Outside the workers, the
\* orchestrator's scope changes only by the merges of the received results,
\* and the caller's scope does not change while fanout runs.
C15_WorkerIsolation ==
    FanoutCalled =>
        /\ \A n \in DOMAIN fo.started :
              units[fo.started[n]].start =
                  WithVariables(Clone(HeldBefore(n)),
                                fo.items[fo.started[n]].Variables)
        /\ fo.scope = MergedUpTo(Len(fo.merged))
        /\ pc = "fanout" => scope = fo.base

C15_Witness ==
    /\ pc = "fanout"
    /\ \E i, j \in DOMAIN units :
          /\ units[i].worker # units[j].worker
          /\ i \in Range(fo.merged)
          /\ "a" \in DOMAIN units[i].wrote
          /\ fo.scope.variables["a"] = units[i].wrote["a"]
          /\ units[j].invoked > 0 /\ ~units[j].done
          /\ units[j].start.variables["a"] = fo.base.variables["a"]
          /\ units[j].start.variables["a"] # units[i].wrote["a"]

(***************************************************************************)
(* Properties of the Scope operations.                                     *)
(***************************************************************************)
\* the variables readable from the Scope value c in the heap
Readable(heap, c) == heap[c.variables]

LastIs(op) == pc = "scope" /\ mem.last.op = op

\* C16: Merge(a, b) holds b's value at every path b holds, a's value at
\* every path only a holds, and no other path (a is the receiver, b the
\* scope merged from, both read before the call).
C16_MergeLaw ==
    LastIs("Merge") =>
        LET a == Readable(mem.last.heap, mem.last.recv)
            b == Readable(mem.last.heap, mem.t)
            m == Readable(mem.heap, mem.last.result)
        IN  /\ DOMAIN m = (DOMAIN a) \cup (DOMAIN b)
            /\ \A p \in DOMAIN b : m[p] = b[p]
            /\ \A p \in (DOMAIN a) \ (DOMAIN b) : m[p] = a[p]

C16_Witness ==
    /\ LastIs("Merge")
    /\ \E p, q, r \in {"x", "y", "z"} :
          /\ p \in DOMAIN Readable(mem.last.heap, mem.last.recv)
          /\ p \in DOMAIN Readable(mem.last.heap, mem.t)
          /\ Readable(mem.last.heap, mem.last.recv)[p] # Readable(mem.last.heap, mem.t)[p]
          /\ q \in DOMAIN Readable(mem.last.heap, mem.last.recv)
          /\ q \notin DOMAIN Readable(mem.last.heap, mem.t)
          /\ r \notin DOMAIN Readable(mem.last.heap, mem.last.recv)
          /\ r \in DOMAIN Readable(mem.last.heap, mem.t)

\* C17: after c = s.Clone(), writes applied to c and to s (WithVariable,
\* WithVariables, Merge) do not affect each other: the variables readable
\* from the Scope value that was cloned stay what they were at the clone, a
\* call on one of s and c leaves the variables readable from the other as
\* they were before the call, so that no write on s appears in c and none
\* on c in s.
C17_CloneIsolation ==
    (pc = "scope" /\ mem.cloned) =>
        /\ Readable(mem.heap, mem.orig) = mem.snap
        /\ mem.last.op = "Clone" => Readable(mem.heap, mem.c) = mem.snap
        /\ (mem.last.op # "Clone" /\ mem.last.on = "s") =>
              Readable(mem.heap, mem.c) = Readable(mem.last.heap, mem.c)
        /\ mem.last.on = "c" =>
              Readable(mem.heap, mem.s) = Readable(mem.last.heap, mem.s)

C17_Witness ==
    /\ pc = "scope" /\ mem.cloned
    /\ "x" \in DOMAIN mem.snap
    /\ Readable(mem.heap, mem.s)["x"] = "s"
    /\ Readable(mem.heap, mem.c)["x"] = "c"
    /\ Readable(mem.heap, mem.orig)["x"] = "init"

\* C18 (as stated): the Scope returned by a WithVariable call, whatever the
\* path, the empty path included, never holds the map instance of the Scope
\* it was called on.
C18_NeverSharesMap ==
    LastIs("WithVariable") =>
        mem.last.result.variables # mem.last.recv.variables

\* C18 (amended): a WithVariable call with a non-empty path returns a Scope
\* with a map instance allocated by the call, which no Scope held before; a
\* call with the empty path returns the receiver as it is, its map instance
\* included, and allocates nothing.
C18_FreshMapUnlessEmptyPath ==
    LastIs("WithVariable") =>
        IF mem.last.path = ""
        THEN /\ mem.last.result = mem.last.recv
             /\ mem.heap = mem.last.heap
        ELSE /\ mem.last.result.variables # mem.last.recv.variables
             /\ mem.last.result.variables > Len(mem.last.heap)
             /\ \A ref \in DOMAIN mem.last.heap :
                   mem.heap[ref] = mem.last.heap[ref]

C18_Witness ==
    /\ LastIs("WithVariable")
    /\ mem.last.path = ""
    /\ mem.last.result.variables = mem.last.recv.variables
    /\ mem.n = MaxOps
    /\ Len(mem.heap) > 3

\* C19: a write at the empty path is a no-op: WithVariable("", v) returns a
\* scope with exactly the same variables (here on every scope the step loop
\* holds), and a set step with an empty ID, whose root path is empty, returns
\* the scope it was dispatched with and a nil error when its value is
\* evaluated.
C19_EmptyPathNoOp ==
    /\ \A v \in {1, 2} : WithVariable(scope, "", v) = scope
    /\ \A n \in Dispatches :
          (/\ pipe.Steps[events[n].i].type = "set"
           /\ pipe.Steps[events[n].i].id = ""
           /\ pipe.Steps[events[n].i].decodable
           /\ n < Len(events)) =>
              /\ VariablePath(pipe.Steps[events[n].i], <<>>) = ""
              /\ events[n + 1].scope = events[n].scope
              /\ events[n + 1].scope.variables = events[n].scope.variables
              /\ YAMLEval(pipe.Steps[events[n].i].params.value,
                          events[n].scope).err = NilErr
                    => events[n + 1].err = NilErr

C19_Witness ==
    /\ pc = "done"
    /\ Len(events) = 2 * MaxSteps
    /\ pipe.Steps[2] = SetStep("", Lit(2))
    /\ events[3].scope.variables # EmptyVariables
    /\ events[4].scope = events[3].scope
    /\ events[4].err = NilErr
    /\ events[6].scope # events[5].scope

\* the paths written by the steps that returned up to event n (set steps,
\* and the step that stores a list)
WrittenBefore(n) ==
    {pipe.Steps[events[m].i].id :
        m \in {k \in Returns : k <= n /\ events[k].err = NilErr
                                /\ pipe.Steps[events[k].i].type
                                      \in {"set", "custom"}}}

ProbedPaths == {"acc", "a", "n", "b", "r", "z", "missing", "list"}

\* Variable on the scope c fails exactly at the paths outside written
FoundExactly(c, written) ==
    \A p \in ProbedPaths :
        Variable(c, p).err =
            IF p \in written THEN NilErr ELSE ErrVariableNotFound

\* the event n belongs to the step loop up to the dispatch of step fan
UpToDispatchOf(fan, n) ==
    \/ events[n].i < fan
    \/ events[n].i = fan /\ events[n].kind = "dispatch"

\* the set step st that returned with the scope c stored its value at its id
StoredBy(st, c) ==
    Variable(c, st.id) = [item |-> st.params.value.value, err |-> NilErr]

\* the range step st, returning e, failed on its variable parameter
RangeNotFound(st, e) ==
    /\ e = <<"error executing step ">> \o StepString(st)
               \o <<": ">> \o ErrVariableNotFound
    /\ ~fo.returned /\ units = <<>> /\ workers = <<>>
    /\ pc = "done" /\ err = e

VariableNotFoundAt(fan, n) ==
    /\ UpToDispatchOf(fan, n) => FoundExactly(events[n].scope, WrittenBefore(n))
    /\ (/\ events[n].kind = "return"
        /\ pipe.Steps[events[n].i].type = "set"
        /\ events[n].err = NilErr) =>
            StoredBy(pipe.Steps[events[n].i], events[n].scope)
    /\ (/\ events[n].kind = "return"
        /\ pipe.Steps[events[n].i].type = "range"
        /\ pipe.Steps[events[n].i].params.variable # ""
        /\ pipe.Steps[events[n].i].params.variable \notin WrittenBefore(n)) =>
            RangeNotFound(pipe.Steps[events[n].i], events[n].err)

\* events is only appended to, by at most two events in one action (the
\* dispatch of a step and its return), so that every event is one of the
\* last two in the state its action leads to: stating the property of the
\* last two events in every state states it of every event
\* (while fanout runs nothing is appended: the states where a worker has
\* received a unit hold the events of the state fanout began in)
VariableNotFoundUpTo(fan) ==
    (pc = "fanout" => fo.started = <<>>) =>
        \A d \in {0, 1} :
            Len(events) > d => VariableNotFoundAt(fan, Len(events) - d)

\* C20: Scope.Variable(p) fails with the not-found error exactly when p was
\* never written in the scope, and returns the stored value with a nil error
\* when p was written, a stored null included (here for the scopes of the
\* step loop up to the range or fanout step, whose writes are those of the
\* set steps before it); and a range step whose variable parameter names a
\* path never written returns the not-found error, without starting fanout.
C20_VariableNotFound == VariableNotFoundUpTo(FanStep)

C20_Witness ==
    /\ pc = "done"
    /\ pipe.Steps[FanStep].type = "range"
    /\ pipe.Steps[FanStep].params.variable = "missing"
    /\ ErrVariableNotFound # NilErr
    /\ Range(ErrVariableNotFound) \subseteq Range(err)
    /\ Variable(scope, "n") = [item |-> Null, err |-> NilErr]
    /\ Variable(scope, "missing").err = ErrVariableNotFound

\* the list the three sources of the range step st denote over the scope c,
\* concatenated in the order literal items, variable, JSON
Concatenated(st, c) ==
    st.params.items
        \o (IF st.params.variable = "" THEN <<>>
            ELSE Variable(c, st.params.variable).item)
        \o (IF st.params.json = Absent THEN <<>>
            ELSE JSONEval(st.params.json, c).value)

\* the work units of the range step st are those of list: the unit at
\* position i carries list[i] at the step's path and i (from 0) at the
\* step's index path
UnitsOf(st, list) ==
    /\ Len(fo.items) = Len(list)
    /\ \A i \in DOMAIN fo.items :
          fo.items[i].Variables =
              (VariablePath(st, <<>>) :> list[i])
                  @@ (VariablePath(st, <<PathNodeIndex>>) :> (i - 1))

\* C21: a range step that reaches fanout runs its sub-pipeline once per
\* element of the concatenation of the literal items, the elements of the
\* sequence stored at the named variable and the elements of the evaluated
\* JSON array; the unit for position i is given that element at the step's
\* path and i at the step's index path.
C21_RangeConcatenates ==
    (FanoutCalled /\ pipe.Steps[FanStep].type = "range") =>
        /\ UnitsOf(pipe.Steps[FanStep], Concatenated(pipe.Steps[FanStep], fo.base))
        /\ FanoutReturnedNil => \A i \in DOMAIN units : units[i].invoked = 1

(***************************************************************************)
(* Properties of the until step.                                           *)
(***************************************************************************)
\* the until step of the pipeline, and whether it has returned
UntilAt == CHOOSE i \in DOMAIN pipe.Steps : Until(pipe.Steps[i])

UntilReturned ==
    \E n \in DOMAIN events : events[n].kind = "return" /\ events[n].i = UntilAt

\* the until step counts to n: its condition is counter < n, its
\* sub-pipeline increments counter
CountsTo(n) ==
    pipe.Steps[UntilAt] = UntilStep(Lt("counter", n), <<Counter>>)

\* every execution of the sub-pipeline was preceded by an evaluation of the
\* condition to true, and followed by an evaluation unless it failed
EvaluatedBeforeEach(evals, iterations) ==
    /\ Len(evals) \in {iterations, iterations + 1}
    /\ \A k \in 1..iterations : evals[k] = "true"

\* C22: an until step evaluates its condition before every iteration, the
\* first included, and runs its sub-pipeline once per consecutive true
\* evaluation: the loop ends at the first evaluation that is false (or
\* fails), or after the first iteration that returns a finished scope or an
\* error.  With the condition counter < n and a sub-pipeline that increments
\* counter from 0 it runs exactly n iterations and leaves counter = n, for
\* n = 3 in particular.
C22_UntilIterations ==
    un.iterations <= MaxCount =>
        /\ EvaluatedBeforeEach(un.evals, un.iterations)
        /\ pc = "until" =>
              /\ Len(un.evals) = un.iterations + 1
              /\ un.proceed <=> un.evals[Len(un.evals)] = "true"
              /\ (~un.proceed \/ un.scope.Finished) => ~ENABLED UntilIterate
              /\ (un.proceed /\ ~un.scope.Finished) => ~ENABLED UntilReturn
        /\ UntilReturned =>
              \/ Len(un.evals) = 0
              \/ un.evals[Len(un.evals)] \in {"false", "error"}
              \/ un.scope.Finished
              \/ err # NilErr /\ Len(un.evals) = un.iterations
        /\ \A n \in 0..MaxCount :
              (CountsTo(n) /\ pc = "done") =>
                  /\ un.iterations = n
                  /\ scope.variables["counter"] = n
                  /\ err = NilErr

C22_Witness ==
    /\ pc = "done"
    /\ CountsTo(3)
    /\ un.iterations = 3
    /\ un.evals = <<"true", "true", "true", "false">>
    /\ scope.variables["counter"] = 3

(***************************************************************************)
(* Properties of Uses and of the catalog.                                  *)
(***************************************************************************)
\* what executing the pipeline that pipe refers to yields, from the scope
\* Pipeline.Execute is called with
Used == UsesExecute(NewScope, pipe)

\* the referenced pipeline ran all its steps, and returned the scope used
RanWhole(id, used) ==
    /\ used.ran = Catalog[id].Steps
    /\ \A k \in DOMAIN Catalog[id].Steps :
          Catalog[id].Steps[k].type = "set" =>
              Catalog[id].Steps[k].id \in DOMAIN used.scope.variables

\* the outcome of the Uses prologue, once it has run
UsesFirst(id, used) ==
    /\ id \notin DOMAIN Catalog =>
          /\ pc = "done" /\ events = <<>>
          /\ err = ErrPipelineNotFound(id)
    /\ (id \in DOMAIN Catalog /\ used.err # NilErr) =>
          /\ pc = "done" /\ events = <<>>
          /\ err = used.err /\ err # NilErr
    /\ (id \in DOMAIN Catalog /\ used.err = NilErr) =>
          /\ RanWhole(id, used)
          /\ events # <<>> =>
                /\ events[1].kind = "dispatch" /\ events[1].i = 1
                /\ events[1].scope = used.scope

\* C23: when a pipeline has Uses set, the referenced pipeline is executed,
\* all its steps, before the first of the pipeline's own steps is
\* dispatched, which receives the scope the referenced pipeline returned; if
\* the referenced pipeline is unknown or returns an error, none of the
\* pipeline's own steps is dispatched and Pipeline.Execute returns that
\* error.
C23_UsesFirst ==
    /\ pc = "start" => events = <<>>
    /\ (pipe.Uses # "" /\ pc # "start") => UsesFirst(pipe.Uses, Used)

C23_Witness ==
    /\ pc = "done"
    /\ pipe.Uses = "base"
    /\ Len(events) = 2 * MaxSteps
    /\ events[1].scope.variables = ("u" :> 7)
    /\ err = NilErr

\* the pipelines at the positions before k all returned a nil error
AllNilBefore(k) ==
    \A n \in DOMAIN events : events[n].i < k => events[n].err = NilErr

\* Pipelines.Execute returned the failure of the pipeline at position k
FailedAt(k) ==
    /\ Len(events) = 2 * k
    /\ events[2 * k].err = err
    /\ AllNilBefore(k)

\* Pipelines.Execute did not find the id at position k
NotFoundAt(k) ==
    /\ cat.ids[k] \notin DOMAIN Catalog
    /\ Len(events) = 2 * (k - 1)
    /\ err = ErrPipelineNotFound(cat.ids[k])
    /\ AllNilBefore(k)

\* C24: Pipelines.Execute runs the named pipelines in the order of the ids,
\* one at a time, each from the scope the previous one returned (the first
\* from the scope of the call); at the first id that is not in the catalog
\* or whose pipeline fails it returns a non-nil error, the not-found error of
\* that id for an unknown id, and no later pipeline is started; otherwise it
\* returns nil after the last one.
C24_CatalogInOrder ==
    /\ \A n \in DOMAIN events :
          /\ events[n].i = (n + 1) \div 2
          /\ events[n].kind = IF Odd(n) THEN "dispatch" ELSE "return"
          /\ cat.ids[events[n].i] \in DOMAIN Catalog
    /\ \A n \in Dispatches :
          events[n].scope = IF n = 1 THEN NewScope ELSE events[n - 1].scope
    /\ (pc = "done" /\ err = NilErr) =>
          /\ Len(events) = 2 * Len(cat.ids)
          /\ AllNilBefore(Len(cat.ids) + 1)
    /\ (pc = "done" /\ err # NilErr) =>
          \E k \in DOMAIN cat.ids : FailedAt(k) \/ NotFoundAt(k)
    /\ (pc = "done" /\ events # <<>>) => scope = events[Len(events)].scope

C24_Witness ==
    /\ pc = "done"
    /\ cat.ids = <<"base", "copy", "missing">>
    /\ err = ErrPipelineNotFound("missing")
    /\ err # NilErr
    /\ Len(events) = 4
    /\ scope.variables = ("u" :> 7) @@ ("v" :> 7)

\* Pipeline.Execute panicked in the call of the range or fanout step, before
\* fanout started a goroutine
PanickedAtEntry ==
    /\ pc = "panicked"
    /\ events # <<>>
    /\ events[Len(events)].kind = "dispatch"
    /\ events[Len(events)].i = FanStep
    /\ ~fo.active /\ ~fo.returned

\* C25: whatever the concurrency of a range or fanout step evaluates to, 0
\* and negative numbers included, the step does not panic because of it and
\* fanout runs with channels and workers for a concurrency of at least 1.
C25_ConcurrencyAtLeastOne ==
    /\ ~PanickedAtEntry
    /\ FanoutCalled => fo.cap >= 1 /\ Len(workers) >= 1

\* the work units whose sub-pipeline a worker has begun to execute
Executed == {i \in DOMAIN units : units[i].invoked > 0}

\* the work units whose result fanout has received when it returns
Received == Consumed \cup (IF fo.failed = 0 THEN {} ELSE {fo.failed})

\* C26: a pipeline whose range or fanout step runs with a concurrency of at
\* most 1 behaves as a function of its input: every run returns (none ends
\* in a panic that depends on the scheduling), and the sub-pipelines
\* executed are those of the units whose results the step has received,
\* whatever the scheduling (the single-threaded order: unit after unit, up
\* to the first that fails or finishes the scope).
C26_Deterministic ==
    (FanoutCalled /\ fo.cap <= 1) =>
        /\ ~crashed
        /\ fo.returned => Executed \subseteq Received

\* C27: every work unit a worker executes starts from a scope whose
\* variables are those of the scope fanout was called with, overridden by
\* the unit's own variables, and whose Finished flag is that scope's,
\* whatever units the same worker executed before.
C27_StartsFromBase ==
    \A i \in Executed :
        units[i].start = WithVariables(Clone(fo.base), fo.items[i].Variables)

\* the workers other than the one that ran the unit i
Siblings(i) == DOMAIN workers \ {units[i].worker}

\* the worker w, holding a unit it received, can go on: the process has not
\* ended, and its result can be sent (out has room) or the orchestrator is
\* still receiving
GoesOn(w) ==
    workers[w].pc \in {"execute", "send"} =>
        /\ ~crashed
        /\ workers[w].pc = "send" => Len(fo.out) < fo.cap \/ pc = "fanout"

\* C28: once the sub-pipeline of a unit has panicked in one worker, every
\* other worker that holds a unit it received still executes it and sends
\* its result: it is neither aborted nor left blocked.
C28_SiblingsComplete ==
    \A i \in DOMAIN units :
        units[i].panicked => \A w \in Siblings(i) : GoesOn(w)

\* C29: once the context fanout derived is cancelled, which every return of
\* fanout does, no worker receives a work unit and begins to execute it; a
\* unit that is being executed is not interrupted.
C29_NoPullAfterCancel ==
    /\ \A i \in DOMAIN units : ~units[i].late
    /\ \A i \in Executed :
          ~units[i].done =>
              /\ workers[units[i].worker].pc = "execute"
              /\ workers[units[i].worker].input.unit = i

\* C30: an until loop observes the cancellation of the ambient context
\* between iterations and returns: once the context is cancelled, the
\* iteration in progress may end, and no further iteration begins after the
\* next one.
C30_CancelEndsUntil == un.late < 2

(***************************************************************************)
(* Properties of Uses cycles, of step errors and of the interceptors.      *)
(***************************************************************************)
RECURSIVE FollowsUses(_, _)
\* following Uses from id, n more references are found in the catalog
FollowsUses(id, n) ==
    IF id \notin DOMAIN Catalog THEN FALSE
    ELSE IF n = 0 THEN TRUE
    ELSE FollowsUses(Catalog[id].Uses, n - 1)

\* the Uses references from id run into a cycle of the catalog
Endless(id) == FollowsUses(id, Cardinality(DOMAIN Catalog))

\* C31: executing a pipeline whose Uses references run into a cycle of the
\* catalog never returns, whatever the Finished flag of the scope is: every
\* call in progress is in or before its Uses prologue, the innermost one is
\* about to call a pipeline of the catalog again (until the stack overflows
\* and the process ends), and no step has been executed.
C31_UsesCycleNeverReturns ==
    Endless(pipe.Uses) =>
        /\ pc = "uses"
        /\ calls.ran = <<>>
        /\ calls.frames # <<>>
        /\ Top.at = "uses"
        /\ Endless(Top.p.Uses)
        /\ \A i \in 1..(Len(calls.frames) - 1) : calls.frames[i].at = "steps"

\* a cycle is entered with a finished scope and followed to the stack limit
C31_Witness ==
    /\ pc = "uses"
    /\ Endless(pipe.Uses)
    /\ scope.Finished
    /\ pipe.Steps # <<>>
    /\ Len(calls.frames) = MaxDepth
    /\ \E i \in 1..(MaxDepth - 1) : calls.frames[i].p.ID = Top.p.ID
    /\ crashed

\* the text of error e contains the text t
Carries(e, t) ==
    \E k \in 0..(Len(e) - Len(t)) : SubSeq(e, k + 1, k + Len(t)) = t

\* C32: every non-nil error the registry's Execute returns for a step carries
\* the string identity of that step (step-<type>[-<id>]), whatever caused the
\* error: the executor, the decoding of the parameters, or an unknown type.
C32_ErrorCarriesStep ==
    \A n \in Returns :
        events[n].err # NilErr =>
            Carries(events[n].err, StepString(pipe.Steps[events[n].i]))

\* C32 (amended): every non-nil error the registry's Execute returns for a
\* step of a registered type carries the string identity of that step,
\* whether the executor or the decoding of its parameters failed; the error
\* for a step of an unknown type is returned unwrapped and names the type
\* only.
C32_RegisteredErrorCarriesStep ==
    \A n \in Returns :
        events[n].err # NilErr =>
            IF pipe.Steps[events[n].i].type \in RegisteredTypes
            THEN Carries(events[n].err, StepString(pipe.Steps[events[n].i]))
            ELSE events[n].err =
                     <<"unknown step type: ", pipe.Steps[events[n].i].type>>

\* the second step has an id and parameters that cannot be decoded
C32_Witness ==
    /\ pc = "done"
    /\ Len(events) = 4
    /\ events[4].err # NilErr
    /\ events[4].i = 2
    /\ ~pipe.Steps[2].decodable
    /\ pipe.Steps[2].id # ""

\* the interceptor installed after k assignments of the variable which
LastSet(which, k) == IF k = 0 THEN "default" ELSE itc.sets[which][k]

\* position n + 1 of the log is the passage of what position n started
\* through the interceptor that was installed
Through(log, n, kind, which) ==
    /\ n < Len(log)
    /\ log[n + 1].kind = kind
    /\ log[n + 1].what = log[n].what
    /\ log[n + 1].by = LastSet(which, log[n + 1].after)

\* position n - 1 of the log is what the passage at position n is of
Of(log, n, kind) ==
    /\ n > 1
    /\ log[n - 1] = Ev(kind, log[n].what, "", 0)

ThroughInstalled(log) ==
    \A n \in DOMAIN log :
        /\ log[n].kind = "dispatch" =>
              IF log[n].what \in RegisteredTypes
              THEN Through(log, n, "step", "step")
              ELSE n < Len(log) => log[n + 1].kind # "step"
        /\ log[n].kind = "call" => Through(log, n, "pipeline", "pipeline")
        /\ log[n].kind = "step" => Of(log, n, "dispatch")
        /\ log[n].kind = "pipeline" => Of(log, n, "call")

\* C33: every dispatch of a step of a registered type goes exactly once
\* through the step interceptor installed at that moment, and every call of
\* Pipeline.Execute (by the embedding program, through Uses, by a pipeline
\* step or by a worker) goes exactly once through the pipeline interceptor
\* installed at that moment: the one the last SetStepInterceptor or
\* SetInterceptor call before it installed, or the default.
C33_InterceptorsLastWriterWins ==
    \A g \in DOMAIN itc.gs : ThroughInstalled(itc.gs[g].log)

\* two workers of a pool dispatch their step and call their pipeline under
\* different interceptors, installed in between
C33_Witness ==
    /\ Len(itc.gs) = 2
    /\ \A g \in DOMAIN itc.gs : itc.gs[g].at = "done"
    /\ itc.sets = [pipeline |-> <<"second">>, step |-> <<"first">>]
    /\ \E g, h \in DOMAIN itc.gs :
          /\ Len(itc.gs[g].log) >= 4 /\ Len(itc.gs[h].log) >= 4
          /\ itc.gs[g].log[2].by = "default" /\ itc.gs[h].log[2].by = "second"
          /\ itc.gs[g].log[4].by = "default" /\ itc.gs[h].log[4].by = "first"

(***************************************************************************)
(* Properties of the stop step whose condition is false.                   *)
(***************************************************************************)
\* the step dispatched at position n of the history is a stop step whose
\* condition evaluates to false
StopIdle(n) ==
    /\ pipe.Steps[events[n].i].type = "stop"
    /\ pipe.Steps[events[n].i].decodable
    /\ BoolEval(pipe.Steps[events[n].i].params.condition, events[n].scope)
           = [value |-> FALSE, err |-> NilErr]

\* the message and is_error of the step dispatched at position n evaluate
MessageEvaluates(n) ==
    /\ StringEval(pipe.Steps[events[n].i].params.message,
                  events[n].scope).err = NilErr
    /\ BoolEval(pipe.Steps[events[n].i].params.is_error,
                events[n].scope).err = NilErr

\* the step dispatched at position n returned its input scope and a nil
\* error, and the pipeline went on with the next step, if there is one
NoOp(n) ==
    /\ Len(events) > n
    /\ events[n + 1].kind = "return"
    /\ events[n + 1].err = NilErr
    /\ events[n + 1].scope = events[n].scope
    /\ idx > events[n].i
    /\ (pc = "done" /\ events[n].i < Len(pipe.Steps)) =>
           events[n].i + 1 \in DispatchedSteps

\* C34: a stop step whose condition evaluates to false is a no-op whatever
\* is_error is: it returns its input scope, variables and Finished unchanged,
\* and a nil error, and the pipeline continues with the next step.
C34_FalseStopNoOp == \A n \in Dispatches : StopIdle(n) => NoOp(n)

\* C34 (amended): a stop step whose condition evaluates to false and whose
\* message and is_error evaluate without error is a no-op, whether is_error
\* is true or false; when the message or is_error fails to evaluate, the
\* step returns its input scope with that error and the pipeline ends.
C34_FalseStopNoOpIfEvaluated ==
    \A n \in Dispatches :
        StopIdle(n) =>
            IF MessageEvaluates(n) THEN NoOp(n)
            ELSE /\ Len(events) = n + 1
                 /\ events[n + 1].err # NilErr
                 /\ events[n + 1].scope = events[n].scope
                 /\ pc = "done"
                 /\ err = events[n + 1].err

\* the second of three steps is a stop step with a false condition and
\* is_error true, after a step that wrote a variable
C34_Witness ==
    /\ pc = "done"
    /\ Len(events) = 6
    /\ StopIdle(3)
    /\ MessageEvaluates(3)
    /\ BoolEval(pipe.Steps[2].params.is_error, events[3].scope).value
    /\ events[3].scope.variables # EmptyVariables
    /\ err = NilErr

(***************************************************************************)
(* Properties of Eval.                                                     *)
(***************************************************************************)
\* the zero value of the type an expression of the kind evaluates to
Zero(kind) ==
    CASE kind = "bool" -> FALSE
      [] kind = "json" -> <<>>
      [] OTHER -> 0

\* the template of the evaluated expression rendered the empty text
RenderedEmpty ==
    /\ ev.done
    /\ ev.kind # ""
    /\ StringEval(ev.expr, ev.scope) = [value |-> "", err |-> NilErr]

\* C35: for every expression kind (boolean, integer, duration, JSON-typed,
\* YAML-typed), when the rendered template text is empty, Eval returns the
\* zero value of the type and a nil error.
C35_EmptyIsZero ==
    RenderedEmpty => ev.err = NilErr /\ ev.value = Zero(ev.kind)

(***************************************************************************)
(* Properties of the goroutines of fanout after it returned.               *)
(***************************************************************************)
\* worker w is blocked in a send on the full channel out
BlockedOnOut(w) ==
    /\ workers[w].pc \in {"send", "recover"}
    /\ Len(fo.out) >= fo.cap

\* C36: after fanout returned, on any path, the feeder and every worker
\* terminate: none stays blocked forever on a channel.  Nothing receives from
\* out after fanout returned, so a worker must not be blocked in a send on
\* the full channel then.
C36_GoroutinesEnd ==
    fo.returned => \A w \in DOMAIN workers : ~BlockedOnOut(w)

\* the scheduler of the Go runtime runs a goroutine that can take a step:
\* as long as the feeder, a worker or the orchestrator can go on, one does
FairFanSpec == FanSpec /\ WF_vars(FanNext)

\* fanout has not returned
Waiting == pc = "fanout" /\ ~crashed

\* the orchestrator, the feeder or a worker can take its next step
CanProgress ==
    \/ fo.k >= Len(fo.items) \/ fo.scope.Finished \/ fo.out # <<>>
    \/ feeder.pc = "send" /\ ~fo.inClosed /\ Len(fo.in) < fo.cap
    \/ \E w \in DOMAIN workers :
          \/ workers[w].pc = "select" /\ fo.in # <<>>
          \/ workers[w].pc = "execute"
          \/ workers[w].pc \in {"send", "recover"} /\ Len(fo.out) < fo.cap

At(pcs) == Cardinality({w \in DOMAIN workers : workers[w].pc \in pcs})

\* what is left to do before every result is merged: every unit goes from
\* the feeder to in, to a worker, to out, to the orchestrator
Remaining ==
    5 * (Len(fo.items) + 1 - feeder.i) + 4 * Len(fo.in) + 3 * At({"execute"})
        + 2 * At({"send", "recover"}) + Len(fo.out)

\* C37: when the ambient context is never cancelled and every sub-pipeline
\* execution terminates, a fanout call with concurrency >= 1 over a finite
\* list of items (empty, or longer than the capacity of the channels)
\* returns: as long as it has not returned, the orchestrator, the feeder or a
\* worker can take a step (no deadlock), and every step either is the return
\* of fanout or leaves strictly less to do (no run goes on forever).
C37_FanoutReturns ==
    /\ [](Waiting => CanProgress)
    /\ [][Waiting => (fo'.returned \/ Remaining' < Remaining)]_vars

\* three items went through channels of capacity 1 and fanout returned
C37_Witness ==
    /\ fo.returned
    /\ fo.cap = 1
    /\ Len(fo.items) = MaxItems
    /\ fo.k = MaxItems
    /\ fo.err = NilErr
    /\ ~crashed

\* the sub-pipeline of the unit i ran a stop that is not an error and that
\* finished its scope
StoppedHere(i) ==
    /\ units[i].done
    /\ units[i].finished
    /\ units[i].err = NilErr
    /\ ~units[i].start.Finished
    /\ \E n \in DOMAIN units[i].ran : units[i].ran[n].type = "stop"

\* the sub-pipeline of the unit j was executed step after step to its end
RanAll(j) == units[j].ran = fo.items[j].Pipeline.Steps

\* C38: a stop that is not an error (condition true, is_error false), run in
\* the sub-pipeline of one unit of a range or fanout step, affects only that
\* unit: the sub-pipeline of every other unit that is executed, and that
\* neither fails, panics nor runs such a stop itself, executes all of its
\* steps.
C38_StopIsLocal ==
    \A i, j \in DOMAIN units :
        (/\ i # j
         /\ StoppedHere(i)
         /\ units[j].done
         /\ units[j].err = NilErr
         /\ ~StoppedHere(j)) => RanAll(j)

\* C39: a variables map is never written after the Scope value that holds
\* it has been returned by NewScope, WithVariable, WithVariables, Clone or
\* Merge: every call leaves every map instance that existed before it as it
\* was (its writes go to map instances it allocates), so that every Scope
\* value held from before the call, by the caller or anyone else, still
\* reads the same variables.
C39_MapsNeverMutated ==
    pc = "scope" =>
        /\ Len(mem.heap) >= Len(mem.last.heap)
        /\ \A ref \in DOMAIN mem.last.heap : mem.heap[ref] = mem.last.heap[ref]
        /\ mem.last.op # "" =>
              Readable(mem.heap, mem.last.recv) =
                  Readable(mem.last.heap, mem.last.recv)
        /\ mem.cloned => Readable(mem.heap, mem.orig) = mem.snap

\* a Merge overwrote, in its result, a path the receiver holds, and the
\* receiver's map still holds the older value
C39_Witness ==
    /\ LastIs("Merge")
    /\ mem.n = MaxOps
    /\ \E p \in DOMAIN Readable(mem.heap, mem.last.recv) :
          /\ p \in DOMAIN Readable(mem.heap, mem.t)
          /\ Readable(mem.heap, mem.last.recv)[p] # Readable(mem.heap, mem.t)[p]
          /\ Readable(mem.heap, mem.last.result)[p] = Readable(mem.heap, mem.t)[p]
    /\ mem.last.result.variables # mem.last.recv.variables

RECURSIVE Ends(_, _)
\* the Uses references from id, at most n of them, end at a pipeline of the
\* catalog that uses no other
Ends(id, n) ==
    IF id = "" THEN TRUE
    ELSE IF id \notin DOMAIN Catalog \/ n = 0 THEN FALSE
    ELSE Ends(Catalog[id].Uses, n - 1)

Resolves(id) == Ends(id, Cardinality(DOMAIN Catalog))

RECURSIVE Missing(_)
\* the first reference not found in the catalog, following Uses from id
Missing(id) == IF id \notin DOMAIN Catalog THEN id ELSE Missing(Catalog[id].Uses)

\* the scope is finished and no stop was executed: Pipeline.Execute was
\* called with a finished scope
StartedFinished ==
    /\ pc \in {"uses", "done"}
    /\ scope.Finished
    /\ \A n \in DOMAIN calls.ran : calls.ran[n].type # "stop"

\* C40 (as stated): Pipeline.Execute called with a scope whose Finished is
\* true executes no step, of the pipeline or of a pipeline reached through
\* Uses, and returns the scope with the same variables, Finished true and a
\* nil error.
C40_FinishedReturnsNil ==
    StartedFinished =>
        /\ ~crashed
        /\ calls.ran = <<>>
        /\ scope \in UsesScopes
        /\ pc = "done" => err = NilErr

\* C40 (amended): Pipeline.Execute called with a scope whose Finished is
\* true executes no step, of the pipeline or of a pipeline reached through
\* Uses, and leaves the scope as it is; the Uses references are followed
\* all the same, so that the call returns a nil error when they end in the
\* catalog, returns the "not found" error when one of them names no
\* pipeline of the catalog, and does not return when they run into a cycle.
C40_FinishedSkipsSteps ==
    StartedFinished =>
        /\ calls.ran = <<>>
        /\ scope \in UsesScopes
        /\ pc = "done" =>
              /\ ~Endless(pipe.Uses)
              /\ err = IF Resolves(pipe.Uses) THEN NilErr
                       ELSE ErrPipelineNotFound(Missing(pipe.Uses))
        /\ crashed => Endless(pipe.Uses)

\* a pipeline with steps, using a pipeline that uses another, returned a
\* finished scope with the variable it was called with
C40_Witness ==
    /\ pc = "done"
    /\ StartedFinished
    /\ pipe.Steps # <<>>
    /\ pipe.Uses = "chain"
    /\ scope = Finish(Seeded)
    /\ err = NilErr
    /\ calls.ran = <<>>

====
